---- MODULE Spec2Model ----
(***************************************************************************)
(* Three-statement automation: account classification (mapping.py), the    *)
(* statement aggregator, the TB+GL merger with its cash-flow derivation    *)
(* and the reconciliation checker (excel_writer.py), the validators        *)
(* (validation.py), the rule-based summary (ai_summary.py) and the         *)
(* dashboard (streamlit_app.py).                                           *)
(*                                                                         *)
(* Conventions.  An optional Python value (None / NaN) is the empty tuple  *)
(* <<>> and a present value v is <<v>>.  A ledger DataFrame is the set of  *)
(* its rows, each row carrying its index label, so that equal rows stay    *)
(* apart (every operation modelled on such a frame is insensitive to row   *)
(* order); a frame whose row order matters is the sequence of its rows.    *)
(* A Python dict is a function whose DOMAIN is the set of keys present.    *)
(* Ledger amounts are integers (whole currency units, which binary         *)
(* floating point adds and subtracts exactly); every product or quotient   *)
(* with a fractional rate is computed in IEEE-754 double precision.        *)
(***************************************************************************)
EXTENDS Integers, Sequences, FiniteSets, TLC

None == <<>>
Some(v) == <<v>>
IsNone(o) == o = <<>>
Val(o) == o[1]

(***************************************************************************)
(* mapping.py: tables                                                      *)
(***************************************************************************)
DEFAULT_ACCOUNT_RANGES ==
  <<
    <<"cash", 1000, 1099>>,
    <<"accounts_receivable", 1100, 1199>>,
    <<"inventory", 1200, 1299>>,
    <<"prepaid_expenses", 1300, 1349>>,
    <<"other_current_assets", 1350, 1499>>,
    <<"ppe_gross", 1500, 1599>>,
    <<"accumulated_depreciation", 1590, 1599>>,
    <<"other_fixed_assets", 1600, 1999>>,
    <<"accounts_payable", 2000, 2099>>,
    <<"accrued_payroll", 2100, 2149>>,
    <<"deferred_revenue", 2150, 2249>>,
    <<"interest_payable", 2250, 2299>>,
    <<"other_current_liabilities", 2300, 2449>>,
    <<"income_taxes_payable", 2450, 2499>>,
    <<"long_term_debt", 2500, 2999>>,
    <<"common_stock", 3000, 3099>>,
    <<"retained_earnings", 3100, 3199>>,
    <<"dividends", 3200, 3999>>,
    <<"revenue", 4000, 4999>>,
    <<"cogs", 5000, 5099>>,
    <<"distribution_expenses", 5100, 5199>>,
    <<"marketing_admin", 5200, 5299>>,
    <<"research_dev", 5300, 5349>>,
    <<"depreciation_expense", 5350, 5399>>,
    <<"other_opex", 5400, 5999>>,
    <<"interest_expense", 6000, 6099>>,
    <<"tax_expense", 6100, 6999>>
  >>

ACCOUNT_NAME_ALIASES ==
  <<
    <<"cash",
      <<"cash", "cash and cash equivalents", "cash equivalents", "bank", "petty cash", "cash on hand">> >>,
    <<"accounts_receivable",
      <<"accounts receivable", "a/r", "ar", "trade receivable", "trade and other receivables", "receivables", "debtors">> >>,
    <<"inventory",
      <<"inventory", "inventories", "stock", "merchandise", "finished goods", "raw materials", "work in process", "wip">> >>,
    <<"prepaid_expenses",
      <<"prepaid", "prepaid expenses", "prepayments", "deferred expenses">> >>,
    <<"other_current_assets",
      <<"other current assets", "current assets - other", "deposits", "advances">> >>,
    <<"ppe_gross",
      <<"property plant and equipment", "ppe", "pp&e", "fixed assets", "property, plant & equipment", "capital assets", "plant and equipment", "property and equipment", "equipment", "machinery", "buildings", "land and buildings", "furniture", "fixtures", "vehicles">> >>,
    <<"accumulated_depreciation",
      <<"accumulated depreciation", "accumulated depr", "acc depreciation", "depreciation", "amortization">> >>,
    <<"accounts_payable",
      <<"accounts payable", "a/p", "ap", "trade payable", "trade payables", "payables", "creditors">> >>,
    <<"accrued_payroll",
      <<"accrued payroll", "accrued wages", "accrued salaries", "payroll payable", "wages payable", "salaries payable", "employee compensation", "accrued compensation", "bonus accrual">> >>,
    <<"deferred_revenue",
      <<"deferred revenue", "unearned revenue", "deferred income", "contract liabilities", "customer deposits", "advance payments", "prepayments from customers">> >>,
    <<"interest_payable",
      <<"interest payable", "accrued interest", "interest accrual">> >>,
    <<"other_current_liabilities",
      <<"other current liabilities", "accrued liabilities", "accrued expenses", "other accruals", "current liabilities - other">> >>,
    <<"income_taxes_payable",
      <<"income taxes payable", "income tax payable", "tax payable", "taxes payable", "current tax liability">> >>,
    <<"long_term_debt",
      <<"long-term debt", "long term debt", "notes payable", "term loan", "revolver", "loan payable", "borrowings", "bank loan", "debt">> >>,
    <<"common_stock",
      <<"common stock", "share capital", "paid-in capital", "additional paid-in capital", "apic", "contributed capital", "common stock and additional paid-in capital">> >>,
    <<"retained_earnings",
      <<"retained earnings", "accumulated earnings", "accumulated profits", "earnings retained">> >>,
    <<"dividends",
      <<"dividends", "dividend", "dividends declared", "common dividends", "dividend payable">> >>,
    <<"revenue",
      <<"revenue", "revenues", "sales", "income", "turnover", "product revenue", "service revenue", "net sales">> >>,
    <<"cogs",
      <<"cost of goods sold", "cogs", "cost of sales", "cost of revenue", "direct costs">> >>,
    <<"distribution_expenses",
      <<"distribution", "distribution expenses", "shipping", "freight", "delivery", "logistics">> >>,
    <<"marketing_admin",
      <<"marketing", "marketing and administration", "sg&a", "selling general and administrative", "admin", "administrative", "general and administrative", "overhead">> >>,
    <<"research_dev",
      <<"research and development", "r&d", "research", "development">> >>,
    <<"depreciation_expense",
      <<"depreciation expense", "depreciation", "amortization expense", "depr expense", "amort expense">> >>,
    <<"interest_expense",
      <<"interest expense", "interest", "finance charges", "interest on debt", "borrowing costs">> >>,
    <<"tax_expense",
      <<"income tax expense", "tax expense", "taxes", "provision for income taxes", "current tax", "income taxes">> >>
  >>
(***************************************************************************)
(* Python str.  A str that the program reads character by character (an   *)
(* account name) is the sequence of its code points (0..1114111), so that  *)
(* every character of Python is a character of the model; Str(s) is the    *)
(* str written as the string s of this module.  A str that the program     *)
(* only stores and compares (a key, a tag, an identifier) is written as a  *)
(* string of this module.                                                  *)
(***************************************************************************)
CharAt(s, i) == SubSeq(s, i, i)

\* the characters U+0020..U+005F and U+0061..U+007E in the order of their
\* code points (U+0060 cannot be written in a string of this module)
Printable ==
  " !\"#$%&'()*+,-./0123456789:;<=>?@ABCDEFGHIJKLMNOPQRSTUVWXYZ[\\]^_"

Lowercase ==
  "abcdefghijklmnopqrstuvwxyz{|}~"

\* the characters U+00A0..U+00FF in the order of their code points
Latin1 ==
  " ¡¢£¤¥¦§¨©ª«¬­®¯°±²³´µ¶·¸¹º»¼½¾¿ÀÁÂÃÄÅÆÇÈÉÊËÌÍÎÏÐÑÒÓÔÕÖ×ØÙÚÛÜÝÞßàáâãäåæçèéêëìíîïðñòóôõö÷øùúûüýþÿ"

IndexIn(table, c) == CHOOSE i \in 1..Len(table) : CharAt(table, i) = c

\* ord(c) of a one-character string of this module
ord(c) ==
  CASE c = "\t" -> 9
    [] c = "\n" -> 10
    [] c = "\f" -> 12
    [] c = "\r" -> 13
    [] \E i \in 1..Len(Printable) : CharAt(Printable, i) = c -> 31 + IndexIn(Printable, c)
    [] \E i \in 1..Len(Lowercase) : CharAt(Lowercase, i) = c -> 96 + IndexIn(Lowercase, c)
    [] OTHER -> 159 + IndexIn(Latin1, c)

RECURSIVE Str(_)
Str(s) ==
  IF Len(s) = 0 THEN <<>> ELSE <<ord(CharAt(s, 1))>> \o Str(SubSeq(s, 2, Len(s)))

Rest(s) == SubSeq(s, 2, Len(s))

(***************************************************************************)
(* str.lower(), as CPython computes it (unicodeobject.c, do_lower): every  *)
(* code point is replaced by its full lowercase mapping, except the        *)
(* capital sigma U+03A3, which becomes the final sigma U+03C2 when it ends *)
(* a word and the small sigma U+03C3 otherwise.                            *)
(***************************************************************************)
\* <<first, last, step, delta>>: the code points first, first + step, ..., last
\* have the lowercase form c + delta (Unicode 14.0.0, the table of CPython 3.11)
ToLowerRanges ==
  << <<65, 90, 1, 32>>, <<192, 214, 1, 32>>, <<216, 222, 1, 32>>,
     <<256, 302, 2, 1>>, <<306, 310, 2, 1>>, <<313, 327, 2, 1>>,
     <<330, 374, 2, 1>>, <<376, 376, 1, -121>>, <<377, 381, 2, 1>>,
     <<385, 385, 1, 210>>, <<386, 388, 2, 1>>, <<390, 390, 1, 206>>,
     <<391, 391, 1, 1>>, <<393, 394, 1, 205>>, <<395, 395, 1, 1>>,
     <<398, 398, 1, 79>>, <<399, 399, 1, 202>>, <<400, 400, 1, 203>>,
     <<401, 401, 1, 1>>, <<403, 403, 1, 205>>, <<404, 404, 1, 207>>,
     <<406, 406, 1, 211>>, <<407, 407, 1, 209>>, <<408, 408, 1, 1>>,
     <<412, 412, 1, 211>>, <<413, 413, 1, 213>>, <<415, 415, 1, 214>>,
     <<416, 420, 2, 1>>, <<422, 422, 1, 218>>, <<423, 423, 1, 1>>,
     <<425, 425, 1, 218>>, <<428, 428, 1, 1>>, <<430, 430, 1, 218>>,
     <<431, 431, 1, 1>>, <<433, 434, 1, 217>>, <<435, 437, 2, 1>>,
     <<439, 439, 1, 219>>, <<440, 440, 1, 1>>, <<444, 444, 1, 1>>,
     <<452, 452, 1, 2>>, <<453, 453, 1, 1>>, <<455, 455, 1, 2>>,
     <<456, 456, 1, 1>>, <<458, 458, 1, 2>>, <<459, 475, 2, 1>>,
     <<478, 494, 2, 1>>, <<497, 497, 1, 2>>, <<498, 500, 2, 1>>,
     <<502, 502, 1, -97>>, <<503, 503, 1, -56>>, <<504, 542, 2, 1>>,
     <<544, 544, 1, -130>>, <<546, 562, 2, 1>>, <<570, 570, 1, 10795>>,
     <<571, 571, 1, 1>>, <<573, 573, 1, -163>>, <<574, 574, 1, 10792>>,
     <<577, 577, 1, 1>>, <<579, 579, 1, -195>>, <<580, 580, 1, 69>>,
     <<581, 581, 1, 71>>, <<582, 590, 2, 1>>, <<880, 882, 2, 1>>,
     <<886, 886, 1, 1>>, <<895, 895, 1, 116>>, <<902, 902, 1, 38>>,
     <<904, 906, 1, 37>>, <<908, 908, 1, 64>>, <<910, 911, 1, 63>>,
     <<913, 929, 1, 32>>, <<932, 939, 1, 32>>, <<975, 975, 1, 8>>,
     <<984, 1006, 2, 1>>, <<1012, 1012, 1, -60>>, <<1015, 1015, 1, 1>>,
     <<1017, 1017, 1, -7>>, <<1018, 1018, 1, 1>>, <<1021, 1023, 1, -130>>,
     <<1024, 1039, 1, 80>>, <<1040, 1071, 1, 32>>, <<1120, 1152, 2, 1>>,
     <<1162, 1214, 2, 1>>, <<1216, 1216, 1, 15>>, <<1217, 1229, 2, 1>>,
     <<1232, 1326, 2, 1>>, <<1329, 1366, 1, 48>>, <<4256, 4293, 1, 7264>>,
     <<4295, 4295, 1, 7264>>, <<4301, 4301, 1, 7264>>,
     <<5024, 5103, 1, 38864>>, <<5104, 5109, 1, 8>>,
     <<7312, 7354, 1, -3008>>, <<7357, 7359, 1, -3008>>,
     <<7680, 7828, 2, 1>>, <<7838, 7838, 1, -7615>>, <<7840, 7934, 2, 1>>,
     <<7944, 7951, 1, -8>>, <<7960, 7965, 1, -8>>, <<7976, 7983, 1, -8>>,
     <<7992, 7999, 1, -8>>, <<8008, 8013, 1, -8>>, <<8025, 8031, 2, -8>>,
     <<8040, 8047, 1, -8>>, <<8072, 8079, 1, -8>>, <<8088, 8095, 1, -8>>,
     <<8104, 8111, 1, -8>>, <<8120, 8121, 1, -8>>, <<8122, 8123, 1, -74>>,
     <<8124, 8124, 1, -9>>, <<8136, 8139, 1, -86>>, <<8140, 8140, 1, -9>>,
     <<8152, 8153, 1, -8>>, <<8154, 8155, 1, -100>>, <<8168, 8169, 1, -8>>,
     <<8170, 8171, 1, -112>>, <<8172, 8172, 1, -7>>, <<8184, 8185, 1, -128>>,
     <<8186, 8187, 1, -126>>, <<8188, 8188, 1, -9>>,
     <<8486, 8486, 1, -7517>>, <<8490, 8490, 1, -8383>>,
     <<8491, 8491, 1, -8262>>, <<8498, 8498, 1, 28>>, <<8544, 8559, 1, 16>>,
     <<8579, 8579, 1, 1>>, <<9398, 9423, 1, 26>>, <<11264, 11311, 1, 48>>,
     <<11360, 11360, 1, 1>>, <<11362, 11362, 1, -10743>>,
     <<11363, 11363, 1, -3814>>, <<11364, 11364, 1, -10727>>,
     <<11367, 11371, 2, 1>>, <<11373, 11373, 1, -10780>>,
     <<11374, 11374, 1, -10749>>, <<11375, 11375, 1, -10783>>,
     <<11376, 11376, 1, -10782>>, <<11378, 11378, 1, 1>>,
     <<11381, 11381, 1, 1>>, <<11390, 11391, 1, -10815>>,
     <<11392, 11490, 2, 1>>, <<11499, 11501, 2, 1>>, <<11506, 11506, 1, 1>>,
     <<42560, 42604, 2, 1>>, <<42624, 42650, 2, 1>>, <<42786, 42798, 2, 1>>,
     <<42802, 42862, 2, 1>>, <<42873, 42875, 2, 1>>,
     <<42877, 42877, 1, -35332>>, <<42878, 42886, 2, 1>>,
     <<42891, 42891, 1, 1>>, <<42893, 42893, 1, -42280>>,
     <<42896, 42898, 2, 1>>, <<42902, 42920, 2, 1>>,
     <<42922, 42922, 1, -42308>>, <<42923, 42923, 1, -42319>>,
     <<42924, 42924, 1, -42315>>, <<42925, 42925, 1, -42305>>,
     <<42926, 42926, 1, -42308>>, <<42928, 42928, 1, -42258>>,
     <<42929, 42929, 1, -42282>>, <<42930, 42930, 1, -42261>>,
     <<42931, 42931, 1, 928>>, <<42932, 42946, 2, 1>>,
     <<42948, 42948, 1, -48>>, <<42949, 42949, 1, -42307>>,
     <<42950, 42950, 1, -35384>>, <<42951, 42953, 2, 1>>,
     <<42960, 42960, 1, 1>>, <<42966, 42968, 2, 1>>, <<42997, 42997, 1, 1>>,
     <<65313, 65338, 1, 32>>, <<66560, 66599, 1, 40>>,
     <<66736, 66771, 1, 40>>, <<66928, 66938, 1, 39>>,
     <<66940, 66954, 1, 39>>, <<66956, 66962, 1, 39>>,
     <<66964, 66965, 1, 39>>, <<68736, 68786, 1, 64>>,
     <<71840, 71871, 1, 32>>, <<93760, 93791, 1, 32>>,
     <<125184, 125217, 1, 34>> >>

\* <<first, last>>: the code points that are cased and not case-ignorable
CasedRanges ==
  << <<65, 90>>, <<97, 122>>, <<170, 170>>, <<181, 181>>, <<186, 186>>,
     <<192, 214>>, <<216, 246>>, <<248, 442>>, <<444, 447>>, <<452, 659>>,
     <<661, 687>>, <<880, 883>>, <<886, 887>>, <<891, 893>>, <<895, 895>>,
     <<902, 902>>, <<904, 906>>, <<908, 908>>, <<910, 929>>, <<931, 1013>>,
     <<1015, 1153>>, <<1162, 1327>>, <<1329, 1366>>, <<1376, 1416>>,
     <<4256, 4293>>, <<4295, 4295>>, <<4301, 4301>>, <<4304, 4346>>,
     <<4349, 4351>>, <<5024, 5109>>, <<5112, 5117>>, <<7296, 7304>>,
     <<7312, 7354>>, <<7357, 7359>>, <<7424, 7467>>, <<7531, 7543>>,
     <<7545, 7578>>, <<7680, 7957>>, <<7960, 7965>>, <<7968, 8005>>,
     <<8008, 8013>>, <<8016, 8023>>, <<8025, 8025>>, <<8027, 8027>>,
     <<8029, 8029>>, <<8031, 8061>>, <<8064, 8116>>, <<8118, 8124>>,
     <<8126, 8126>>, <<8130, 8132>>, <<8134, 8140>>, <<8144, 8147>>,
     <<8150, 8155>>, <<8160, 8172>>, <<8178, 8180>>, <<8182, 8188>>,
     <<8450, 8450>>, <<8455, 8455>>, <<8458, 8467>>, <<8469, 8469>>,
     <<8473, 8477>>, <<8484, 8484>>, <<8486, 8486>>, <<8488, 8488>>,
     <<8490, 8493>>, <<8495, 8500>>, <<8505, 8505>>, <<8508, 8511>>,
     <<8517, 8521>>, <<8526, 8526>>, <<8544, 8575>>, <<8579, 8580>>,
     <<9398, 9449>>, <<11264, 11387>>, <<11390, 11492>>, <<11499, 11502>>,
     <<11506, 11507>>, <<11520, 11557>>, <<11559, 11559>>, <<11565, 11565>>,
     <<42560, 42605>>, <<42624, 42651>>, <<42786, 42863>>, <<42865, 42887>>,
     <<42891, 42894>>, <<42896, 42954>>, <<42960, 42961>>, <<42963, 42963>>,
     <<42965, 42969>>, <<42997, 42998>>, <<43002, 43002>>, <<43824, 43866>>,
     <<43872, 43880>>, <<43888, 43967>>, <<64256, 64262>>, <<64275, 64279>>,
     <<65313, 65338>>, <<65345, 65370>>, <<66560, 66639>>, <<66736, 66771>>,
     <<66776, 66811>>, <<66928, 66938>>, <<66940, 66954>>, <<66956, 66962>>,
     <<66964, 66965>>, <<66967, 66977>>, <<66979, 66993>>, <<66995, 67001>>,
     <<67003, 67004>>, <<68736, 68786>>, <<68800, 68850>>, <<71840, 71903>>,
     <<93760, 93823>>, <<119808, 119892>>, <<119894, 119964>>,
     <<119966, 119967>>, <<119970, 119970>>, <<119973, 119974>>,
     <<119977, 119980>>, <<119982, 119993>>, <<119995, 119995>>,
     <<119997, 120003>>, <<120005, 120069>>, <<120071, 120074>>,
     <<120077, 120084>>, <<120086, 120092>>, <<120094, 120121>>,
     <<120123, 120126>>, <<120128, 120132>>, <<120134, 120134>>,
     <<120138, 120144>>, <<120146, 120485>>, <<120488, 120512>>,
     <<120514, 120538>>, <<120540, 120570>>, <<120572, 120596>>,
     <<120598, 120628>>, <<120630, 120654>>, <<120656, 120686>>,
     <<120688, 120712>>, <<120714, 120744>>, <<120746, 120770>>,
     <<120772, 120779>>, <<122624, 122633>>, <<122635, 122654>>,
     <<125184, 125251>>, <<127280, 127305>>, <<127312, 127337>>,
     <<127344, 127369>> >>

\* <<first, last>>: the case-ignorable code points
CaseIgnorableRanges ==
  << <<39, 39>>, <<46, 46>>, <<58, 58>>, <<94, 94>>, <<96, 96>>,
     <<168, 168>>, <<173, 173>>, <<175, 175>>, <<180, 180>>, <<183, 184>>,
     <<688, 879>>, <<884, 885>>, <<890, 890>>, <<900, 901>>, <<903, 903>>,
     <<1155, 1161>>, <<1369, 1369>>, <<1375, 1375>>, <<1425, 1469>>,
     <<1471, 1471>>, <<1473, 1474>>, <<1476, 1477>>, <<1479, 1479>>,
     <<1524, 1524>>, <<1536, 1541>>, <<1552, 1562>>, <<1564, 1564>>,
     <<1600, 1600>>, <<1611, 1631>>, <<1648, 1648>>, <<1750, 1757>>,
     <<1759, 1768>>, <<1770, 1773>>, <<1807, 1807>>, <<1809, 1809>>,
     <<1840, 1866>>, <<1958, 1968>>, <<2027, 2037>>, <<2042, 2042>>,
     <<2045, 2045>>, <<2070, 2093>>, <<2137, 2139>>, <<2184, 2184>>,
     <<2192, 2193>>, <<2200, 2207>>, <<2249, 2306>>, <<2362, 2362>>,
     <<2364, 2364>>, <<2369, 2376>>, <<2381, 2381>>, <<2385, 2391>>,
     <<2402, 2403>>, <<2417, 2417>>, <<2433, 2433>>, <<2492, 2492>>,
     <<2497, 2500>>, <<2509, 2509>>, <<2530, 2531>>, <<2558, 2558>>,
     <<2561, 2562>>, <<2620, 2620>>, <<2625, 2626>>, <<2631, 2632>>,
     <<2635, 2637>>, <<2641, 2641>>, <<2672, 2673>>, <<2677, 2677>>,
     <<2689, 2690>>, <<2748, 2748>>, <<2753, 2757>>, <<2759, 2760>>,
     <<2765, 2765>>, <<2786, 2787>>, <<2810, 2815>>, <<2817, 2817>>,
     <<2876, 2876>>, <<2879, 2879>>, <<2881, 2884>>, <<2893, 2893>>,
     <<2901, 2902>>, <<2914, 2915>>, <<2946, 2946>>, <<3008, 3008>>,
     <<3021, 3021>>, <<3072, 3072>>, <<3076, 3076>>, <<3132, 3132>>,
     <<3134, 3136>>, <<3142, 3144>>, <<3146, 3149>>, <<3157, 3158>>,
     <<3170, 3171>>, <<3201, 3201>>, <<3260, 3260>>, <<3263, 3263>>,
     <<3270, 3270>>, <<3276, 3277>>, <<3298, 3299>>, <<3328, 3329>>,
     <<3387, 3388>>, <<3393, 3396>>, <<3405, 3405>>, <<3426, 3427>>,
     <<3457, 3457>>, <<3530, 3530>>, <<3538, 3540>>, <<3542, 3542>>,
     <<3633, 3633>>, <<3636, 3642>>, <<3654, 3662>>, <<3761, 3761>>,
     <<3764, 3772>>, <<3782, 3782>>, <<3784, 3789>>, <<3864, 3865>>,
     <<3893, 3893>>, <<3895, 3895>>, <<3897, 3897>>, <<3953, 3966>>,
     <<3968, 3972>>, <<3974, 3975>>, <<3981, 3991>>, <<3993, 4028>>,
     <<4038, 4038>>, <<4141, 4144>>, <<4146, 4151>>, <<4153, 4154>>,
     <<4157, 4158>>, <<4184, 4185>>, <<4190, 4192>>, <<4209, 4212>>,
     <<4226, 4226>>, <<4229, 4230>>, <<4237, 4237>>, <<4253, 4253>>,
     <<4348, 4348>>, <<4957, 4959>>, <<5906, 5908>>, <<5938, 5939>>,
     <<5970, 5971>>, <<6002, 6003>>, <<6068, 6069>>, <<6071, 6077>>,
     <<6086, 6086>>, <<6089, 6099>>, <<6103, 6103>>, <<6109, 6109>>,
     <<6155, 6159>>, <<6211, 6211>>, <<6277, 6278>>, <<6313, 6313>>,
     <<6432, 6434>>, <<6439, 6440>>, <<6450, 6450>>, <<6457, 6459>>,
     <<6679, 6680>>, <<6683, 6683>>, <<6742, 6742>>, <<6744, 6750>>,
     <<6752, 6752>>, <<6754, 6754>>, <<6757, 6764>>, <<6771, 6780>>,
     <<6783, 6783>>, <<6823, 6823>>, <<6832, 6862>>, <<6912, 6915>>,
     <<6964, 6964>>, <<6966, 6970>>, <<6972, 6972>>, <<6978, 6978>>,
     <<7019, 7027>>, <<7040, 7041>>, <<7074, 7077>>, <<7080, 7081>>,
     <<7083, 7085>>, <<7142, 7142>>, <<7144, 7145>>, <<7149, 7149>>,
     <<7151, 7153>>, <<7212, 7219>>, <<7222, 7223>>, <<7288, 7293>>,
     <<7376, 7378>>, <<7380, 7392>>, <<7394, 7400>>, <<7405, 7405>>,
     <<7412, 7412>>, <<7416, 7417>>, <<7468, 7530>>, <<7544, 7544>>,
     <<7579, 7679>>, <<8125, 8125>>, <<8127, 8129>>, <<8141, 8143>>,
     <<8157, 8159>>, <<8173, 8175>>, <<8189, 8190>>, <<8203, 8207>>,
     <<8216, 8217>>, <<8228, 8228>>, <<8231, 8231>>, <<8234, 8238>>,
     <<8288, 8292>>, <<8294, 8303>>, <<8305, 8305>>, <<8319, 8319>>,
     <<8336, 8348>>, <<8400, 8432>>, <<11388, 11389>>, <<11503, 11505>>,
     <<11631, 11631>>, <<11647, 11647>>, <<11744, 11775>>, <<11823, 11823>>,
     <<12293, 12293>>, <<12330, 12333>>, <<12337, 12341>>, <<12347, 12347>>,
     <<12441, 12446>>, <<12540, 12542>>, <<40981, 40981>>, <<42232, 42237>>,
     <<42508, 42508>>, <<42607, 42610>>, <<42612, 42621>>, <<42623, 42623>>,
     <<42652, 42655>>, <<42736, 42737>>, <<42752, 42785>>, <<42864, 42864>>,
     <<42888, 42890>>, <<42994, 42996>>, <<43000, 43001>>, <<43010, 43010>>,
     <<43014, 43014>>, <<43019, 43019>>, <<43045, 43046>>, <<43052, 43052>>,
     <<43204, 43205>>, <<43232, 43249>>, <<43263, 43263>>, <<43302, 43309>>,
     <<43335, 43345>>, <<43392, 43394>>, <<43443, 43443>>, <<43446, 43449>>,
     <<43452, 43453>>, <<43471, 43471>>, <<43493, 43494>>, <<43561, 43566>>,
     <<43569, 43570>>, <<43573, 43574>>, <<43587, 43587>>, <<43596, 43596>>,
     <<43632, 43632>>, <<43644, 43644>>, <<43696, 43696>>, <<43698, 43700>>,
     <<43703, 43704>>, <<43710, 43711>>, <<43713, 43713>>, <<43741, 43741>>,
     <<43756, 43757>>, <<43763, 43764>>, <<43766, 43766>>, <<43867, 43871>>,
     <<43881, 43883>>, <<44005, 44005>>, <<44008, 44008>>, <<44013, 44013>>,
     <<64286, 64286>>, <<64434, 64450>>, <<65024, 65039>>, <<65043, 65043>>,
     <<65056, 65071>>, <<65106, 65106>>, <<65109, 65109>>, <<65279, 65279>>,
     <<65287, 65287>>, <<65294, 65294>>, <<65306, 65306>>, <<65342, 65342>>,
     <<65344, 65344>>, <<65392, 65392>>, <<65438, 65439>>, <<65507, 65507>>,
     <<65529, 65531>>, <<66045, 66045>>, <<66272, 66272>>, <<66422, 66426>>,
     <<67456, 67461>>, <<67463, 67504>>, <<67506, 67514>>, <<68097, 68099>>,
     <<68101, 68102>>, <<68108, 68111>>, <<68152, 68154>>, <<68159, 68159>>,
     <<68325, 68326>>, <<68900, 68903>>, <<69291, 69292>>, <<69446, 69456>>,
     <<69506, 69509>>, <<69633, 69633>>, <<69688, 69702>>, <<69744, 69744>>,
     <<69747, 69748>>, <<69759, 69761>>, <<69811, 69814>>, <<69817, 69818>>,
     <<69821, 69821>>, <<69826, 69826>>, <<69837, 69837>>, <<69888, 69890>>,
     <<69927, 69931>>, <<69933, 69940>>, <<70003, 70003>>, <<70016, 70017>>,
     <<70070, 70078>>, <<70089, 70092>>, <<70095, 70095>>, <<70191, 70193>>,
     <<70196, 70196>>, <<70198, 70199>>, <<70206, 70206>>, <<70367, 70367>>,
     <<70371, 70378>>, <<70400, 70401>>, <<70459, 70460>>, <<70464, 70464>>,
     <<70502, 70508>>, <<70512, 70516>>, <<70712, 70719>>, <<70722, 70724>>,
     <<70726, 70726>>, <<70750, 70750>>, <<70835, 70840>>, <<70842, 70842>>,
     <<70847, 70848>>, <<70850, 70851>>, <<71090, 71093>>, <<71100, 71101>>,
     <<71103, 71104>>, <<71132, 71133>>, <<71219, 71226>>, <<71229, 71229>>,
     <<71231, 71232>>, <<71339, 71339>>, <<71341, 71341>>, <<71344, 71349>>,
     <<71351, 71351>>, <<71453, 71455>>, <<71458, 71461>>, <<71463, 71467>>,
     <<71727, 71735>>, <<71737, 71738>>, <<71995, 71996>>, <<71998, 71998>>,
     <<72003, 72003>>, <<72148, 72151>>, <<72154, 72155>>, <<72160, 72160>>,
     <<72193, 72202>>, <<72243, 72248>>, <<72251, 72254>>, <<72263, 72263>>,
     <<72273, 72278>>, <<72281, 72283>>, <<72330, 72342>>, <<72344, 72345>>,
     <<72752, 72758>>, <<72760, 72765>>, <<72767, 72767>>, <<72850, 72871>>,
     <<72874, 72880>>, <<72882, 72883>>, <<72885, 72886>>, <<73009, 73014>>,
     <<73018, 73018>>, <<73020, 73021>>, <<73023, 73029>>, <<73031, 73031>>,
     <<73104, 73105>>, <<73109, 73109>>, <<73111, 73111>>, <<73459, 73460>>,
     <<78896, 78904>>, <<92912, 92916>>, <<92976, 92982>>, <<92992, 92995>>,
     <<94031, 94031>>, <<94095, 94111>>, <<94176, 94177>>, <<94179, 94180>>,
     <<110576, 110579>>, <<110581, 110587>>, <<110589, 110590>>,
     <<113821, 113822>>, <<113824, 113827>>, <<118528, 118573>>,
     <<118576, 118598>>, <<119143, 119145>>, <<119155, 119170>>,
     <<119173, 119179>>, <<119210, 119213>>, <<119362, 119364>>,
     <<121344, 121398>>, <<121403, 121452>>, <<121461, 121461>>,
     <<121476, 121476>>, <<121499, 121503>>, <<121505, 121519>>,
     <<122880, 122886>>, <<122888, 122904>>, <<122907, 122913>>,
     <<122915, 122916>>, <<122918, 122922>>, <<123184, 123197>>,
     <<123566, 123566>>, <<123628, 123631>>, <<125136, 125142>>,
     <<125252, 125259>>, <<127995, 127999>>, <<917505, 917505>>,
     <<917536, 917631>>, <<917760, 917999>> >>

InRanges(c, ranges) ==
  \E i \in DOMAIN ranges : ranges[i][1] <= c /\ c <= ranges[i][2]

IsCaseIgnorable(c) == InRanges(c, CaseIgnorableRanges)

IsCased(c) == InRanges(c, CasedRanges)

\* _PyUnicode_ToLowerFull: U+0130 is the one code point with a lowercase form
\* of two code points
ToLowerFull(c) ==
  IF c < 128 THEN (IF 65 <= c /\ c <= 90 THEN <<c + 32>> ELSE <<c>>)
  ELSE IF c = 304 THEN <<105, 775>>
  ELSE IF \E i \in DOMAIN ToLowerRanges :
            /\ ToLowerRanges[i][1] <= c /\ c <= ToLowerRanges[i][2]
            /\ (c - ToLowerRanges[i][1]) % ToLowerRanges[i][3] = 0
    THEN LET i == CHOOSE i \in DOMAIN ToLowerRanges :
                    /\ ToLowerRanges[i][1] <= c /\ c <= ToLowerRanges[i][2]
                    /\ (c - ToLowerRanges[i][1]) % ToLowerRanges[i][3] = 0
         IN  <<c + ToLowerRanges[i][4]>>
  ELSE <<c>>

\* the nearest position before i (step -1) or after i (step 1) whose code
\* point is not case-ignorable; 0 or Len(s) + 1 when there is none
RECURSIVE skip_ignorable(_, _, _)
skip_ignorable(s, j, step) ==
  IF j < 1 \/ j > Len(s) \/ ~IsCaseIgnorable(s[j]) THEN j
  ELSE skip_ignorable(s, j + step, step)

\* handle_capital_sigma: the sigma at i is final when a cased character
\* precedes it and none follows it, case-ignorable characters skipped
handle_capital_sigma(s, i) ==
  LET before == skip_ignorable(s, i - 1, -1)
      after  == skip_ignorable(s, i + 1, 1)
  IN  IF /\ before >= 1 /\ IsCased(s[before])
         /\ (after > Len(s) \/ ~IsCased(s[after]))
        THEN 962 ELSE 963

RECURSIVE do_lower(_, _)
do_lower(s, i) ==
  IF i > Len(s) THEN <<>>
  ELSE (IF s[i] = 931 THEN <<handle_capital_sigma(s, i)>> ELSE ToLowerFull(s[i]))
         \o do_lower(s, i + 1)

str_lower(s) == do_lower(s, 1)

\* The code points str.isspace() accepts, which are the ones str.strip()
\* removes and the ones \s matches in a str pattern.
Whitespace ==
  (9..13) \cup (28..32) \cup {133, 160, 5760} \cup (8192..8202)
    \cup {8232, 8233, 8239, 8287, 12288}

IsSpace(c) == c \in Whitespace

RECURSIVE lstrip(_)
lstrip(s) ==
  IF Len(s) > 0 /\ IsSpace(s[1]) THEN lstrip(Rest(s)) ELSE s

RECURSIVE rstrip(_)
rstrip(s) ==
  IF Len(s) > 0 /\ IsSpace(s[Len(s)])
    THEN rstrip(SubSeq(s, 1, Len(s) - 1)) ELSE s

str_strip(s) == rstrip(lstrip(s))

\* re.sub(r'\s+', ' ', s): every maximal run of whitespace becomes one space
RECURSIVE collapse_whitespace(_)
collapse_whitespace(s) ==
  IF Len(s) = 0 THEN <<>>
  ELSE IF IsSpace(s[1])
    THEN <<32>> \o collapse_whitespace(lstrip(s))
    ELSE <<s[1]>> \o collapse_whitespace(Rest(s))

\* .replace(',', '').replace('.', '').replace('&', 'and')
RECURSIVE replace_punctuation(_)
replace_punctuation(s) ==
  IF Len(s) = 0 THEN <<>>
  ELSE LET c == s[1]
           r == replace_punctuation(Rest(s))
       IN  IF c = 44 \/ c = 46 THEN r
           ELSE IF c = 38 THEN <<97, 110, 100>> \o r
           ELSE <<c>> \o r

\* Python's  sub in s
Contains(s, sub) ==
  \E i \in 1..(Len(s) - Len(sub) + 1) : SubSeq(s, i, i + Len(sub) - 1) = sub

(***************************************************************************)
(* mapping.py: functions.  A name argument is optional: None or Some(str). *)
(***************************************************************************)
payroll_keywords ==
  <<Str("payroll"), Str("wage"), Str("salary"), Str("bonus"), Str("compensation")>>

\* account_name is a str here (the caller has already excluded NaN)
classify_accrued_liability(account_name) ==
  LET account_lower == str_lower(account_name)
  IN  IF \E k \in 1..Len(payroll_keywords) :
             Contains(account_lower, payroll_keywords[k])
        THEN "accrued_payroll"
        ELSE "other_current_liabilities"

normalize_account_name(name) ==
  IF IsNone(name) THEN <<>>
  ELSE replace_punctuation(collapse_whitespace(str_strip(str_lower(Val(name)))))

\* The dict ACCOUNT_NAME_ALIASES as the module builds it: (category, aliases)
\* in the order of insertion, every alias a str.
AliasesDict ==
  [i \in DOMAIN ACCOUNT_NAME_ALIASES |->
     <<ACCOUNT_NAME_ALIASES[i][1],
       [j \in DOMAIN ACCOUNT_NAME_ALIASES[i][2] |-> Str(ACCOUNT_NAME_ALIASES[i][2][j])]>>]

\* alias.lower() for every alias of the table
alias_lower ==
  [i \in DOMAIN AliasesDict |->
     [j \in DOMAIN AliasesDict[i][2] |-> str_lower(AliasesDict[i][2][j])]]

\* alias.lower() in normalized or normalized in alias.lower()
AliasHit(alias, normalized) ==
  Contains(normalized, str_lower(alias)) \/ Contains(str_lower(alias), normalized)

\* The nested for-loops of map_account_by_name over aliases.items() return
\* at the first hit in table order: the category is the first one with some
\* matching alias.
categories_hit(aliases, normalized) ==
  {i \in DOMAIN aliases :
     \E j \in DOMAIN aliases[i][2] : AliasHit(aliases[i][2][j], normalized)}

ScanAliases(aliases, normalized) ==
  LET hit == categories_hit(aliases, normalized)
  IN  IF hit = {} THEN None
      ELSE Some(aliases[CHOOSE i \in hit : \A k \in hit : i <= k][1])

\* the literal 'accrued'
accrued == Str("accrued")

\* map_account_by_name, the global ACCOUNT_NAME_ALIASES being the dict
\* `aliases` when the function is called
map_account_by_name_in(aliases, account_name) ==
  IF IsNone(account_name) THEN None
  ELSE LET normalized == normalize_account_name(account_name)
       IN  IF Contains(normalized, accrued)
             THEN Some(classify_accrued_liability(Val(account_name)))
             ELSE ScanAliases(aliases, normalized)

map_account_by_name(account_name) == map_account_by_name_in(AliasesDict, account_name)

RECURSIVE ScanRanges(_, _, _)
ScanRanges(n, ranges, i) ==
  IF i > Len(ranges) THEN None
  ELSE IF ranges[i][2] <= n /\ n <= ranges[i][3] THEN Some(ranges[i][1])
  ELSE ScanRanges(n, ranges, i + 1)

\* map_account_by_range, the global DEFAULT_ACCOUNT_RANGES being the dict
\* `defaults` when the function is called; custom_ranges is None or
\* Some(table), and an empty custom table is falsy
map_account_by_range_in(defaults, account_number, custom_ranges) ==
  IF IsNone(account_number) THEN None
  ELSE LET ranges == IF IsNone(custom_ranges) \/ Len(Val(custom_ranges)) = 0
                       THEN defaults ELSE Val(custom_ranges)
       IN  ScanRanges(Val(account_number), ranges, 1)

map_account_by_range(account_number, custom_ranges) ==
  map_account_by_range_in(DEFAULT_ACCOUNT_RANGES, account_number, custom_ranges)

\* account names of the checked charts of accounts: plain names, names made
\* of or containing whitespace of every kind (U+1680, U+2003, U+3000 and
\* U+2028 among them; U+200B is not whitespace), and names with capitals
\* of several scripts (accented Latin, the dotted capital I U+0130, Greek
\* with its two sigmas, fullwidth U+FF21.., Deseret U+10400..)
AccountNames ==
  { None } \cup
  { Some(Str(s)) : s \in
      { "", " . ", "Cash", "  CASH  ", "Accrued Payroll", "Accrued Expenses",
        "Accrued Pay.roll", "Long-Term Debt", "Retained Earnings",
        "Sales Revenue", "R&D", "Suspense",
        "\t", "\n", " \t ", "\tcash", "a \t b",
        "Cash\tand\tCash  Equivalents", "\r\nSuspense\f",
        "ÉCART", "Ünearned REVENUE × Þß", "AccruedPayroll " } } \cup
  { Some(n) : n \in
      { <<5760>>, <<28, 133, 160, 11>>,
        Str("Accounts") \o <<5760>> \o Str("Payable"),
        Str("Trade") \o <<8195, 12288>> \o Str("Receivable") \o <<8232>>,
        Str("Cash") \o <<8203>>,
        Str("ACCRUED") \o <<8239>> \o Str("WAGES"),
        <<65315, 65313, 65331, 65320>>,
        <<304>> \o Str("NVENTORY"),
        <<931, 913, 923, 917, 931>>, <<931>>, Str("a") \o <<931, 1425>> \o Str(" b"),
        <<66560, 66561>>, <<453>> \o Str("ebt"), <<55296, 1114111, 0>> } }

(***************************************************************************)
(* map_accounts, statement by statement on the objects it works with.  The *)
(* heap is the sequence of the objects and a reference is a position in    *)
(* it.  The globals ACCOUNT_NAME_ALIASES and DEFAULT_ACCOUNT_RANGES of the  *)
(* module are bound to the first two objects; a frame is the record of its *)
(* columns and of its rows in order.  A cell of FSLI_Category is None or   *)
(* Some(category) until fillna, and a category after it.                   *)
(***************************************************************************)
ALIASES == 1
RANGES == 2

\* df[c] = values, on the frame at ref
assign_column(heap, ref, c, values) ==
  [heap EXCEPT ![ref] =
     [columns |-> @.columns \cup {c},
      rows |-> [i \in DOMAIN @.rows |-> (c :> values[i]) @@ @.rows[i]]]]

\* df = df.copy(): the copy is a new object
copy_frame(heap, df) == Append(heap, heap[df])

\* df['FSLI_Category'] = None
init_category(heap, ref) ==
  assign_column(heap, ref, "FSLI_Category", [i \in DOMAIN heap[ref].rows |-> None])

\* if 'AccountName' in df.columns:
\*     df['FSLI_Category'] = df['AccountName'].apply(map_account_by_name)
name_pass(heap, ref) ==
  IF "AccountName" \in heap[ref].columns
    THEN assign_column(heap, ref, "FSLI_Category",
           [i \in DOMAIN heap[ref].rows |->
              map_account_by_name_in(heap[ALIASES], heap[ref].rows[i].AccountName)])
    ELSE heap

\* if 'AccountNumber' in df.columns: the rows whose category isna() get
\* map_account_by_range(number, custom_ranges)
range_pass(heap, ref, custom_ranges) ==
  IF "AccountNumber" \in heap[ref].columns
    THEN assign_column(heap, ref, "FSLI_Category",
           [i \in DOMAIN heap[ref].rows |->
              IF IsNone(heap[ref].rows[i].FSLI_Category)
                THEN map_account_by_range_in(heap[RANGES], heap[ref].rows[i].AccountNumber,
                              IF IsNone(custom_ranges) THEN None
                              ELSE Some(heap[Val(custom_ranges)]))
                ELSE heap[ref].rows[i].FSLI_Category])
    ELSE heap

\* df['FSLI_Category'] = df['FSLI_Category'].fillna('unclassified')
fillna(heap, ref) ==
  assign_column(heap, ref, "FSLI_Category",
    [i \in DOMAIN heap[ref].rows |->
       IF IsNone(heap[ref].rows[i].FSLI_Category) THEN "unclassified"
       ELSE Val(heap[ref].rows[i].FSLI_Category)])

\* a map_accounts that consults the number ranges before the names: the
\* first pass writes the range categories, the second the name categories of
\* the rows still unmapped
map_accounts_call_range_first(heap, df, custom_ranges) ==
  LET copy == Len(heap) + 1
      h1 == init_category(copy_frame(heap, df), copy)
      h2 == range_pass(h1, copy, custom_ranges)
      h3 == assign_column(h2, copy, "FSLI_Category",
              [i \in DOMAIN h2[copy].rows |->
                 IF IsNone(h2[copy].rows[i].FSLI_Category)
                   THEN map_account_by_name_in(h2[ALIASES], h2[copy].rows[i].AccountName)
                   ELSE h2[copy].rows[i].FSLI_Category])
  IN  [heap |-> fillna(h3, copy), result |-> copy]

\* a map_accounts without df.copy(): it writes into the frame it is handed
\* and returns it
map_accounts_call_in_place(heap, df, custom_ranges) ==
  [heap |-> fillna(range_pass(name_pass(init_category(heap, df), df),
                              df, custom_ranges), df),
   result |-> df]

\* map_accounts(df, custom_ranges) for the references df and custom_ranges
\* (None or Some(reference)): the heap it leaves and the reference it returns
map_accounts_call(heap, df, custom_ranges) ==
  [heap |-> fillna(range_pass(name_pass(init_category(copy_frame(heap, df),
                                                      Len(heap) + 1),
                                        Len(heap) + 1),
                              Len(heap) + 1, custom_ranges),
                   Len(heap) + 1),
   result |-> Len(heap) + 1]

\* The frame map_accounts returns for a frame given by its rows, which have
\* an AccountName and an AccountNumber, and for custom_ranges None or
\* Some(table): the call on a heap of the module's two dicts, the frame and
\* the table.
map_accounts(df, custom_ranges) ==
  LET columns == {"AccountName", "AccountNumber"}
                   \cup UNION {DOMAIN df[i] : i \in DOMAIN df}
      objects == <<AliasesDict, DEFAULT_ACCOUNT_RANGES,
                   [columns |-> columns, rows |-> df]>>
                 \o (IF IsNone(custom_ranges) THEN <<>> ELSE <<Val(custom_ranges)>>)
      run == map_accounts_call(objects, 3,
                               IF IsNone(custom_ranges) THEN None ELSE Some(4))
  IN  run.heap[run.result].rows

(***************************************************************************)
(* excel_writer.py: statement aggregator                                   *)
(*                                                                         *)
(* A ledger row is [Index, TxnDate, FSLI_Category, Debit, Credit]: Index   *)
(* is the row's label in the DataFrame's index, so two rows that agree in  *)
(* every column are still two rows; TxnDate is None (NaT after             *)
(* errors='coerce') or Some(<<year, day>>).                                *)
(***************************************************************************)
\* pd.DataFrame(rows): the rows of a list under the default RangeIndex
DataFrame(rows) == { [Index |-> i - 1] @@ rows[i] : i \in DOMAIN rows }

\* len(df)
len(df) == Cardinality(df)

EmptyDict == [k \in {} |-> 0]

\* dict.get(k, 0.0)
Get(d, k) == IF k \in DOMAIN d THEN d[k] ELSE 0

\* d.update(u)
Update(d, u) == u @@ d

Abs(x) == IF x < 0 THEN -x ELSE x
Max(a, b) == IF a >= b THEN a ELSE b

RECURSIVE SumDebit(_)
SumDebit(rows) ==
  IF rows = {} THEN 0
  ELSE LET r == CHOOSE r \in rows : TRUE IN r.Debit + SumDebit(rows \ {r})

RECURSIVE SumCredit(_)
SumCredit(rows) ==
  IF rows = {} THEN 0
  ELSE LET r == CHOOSE r \in rows : TRUE IN r.Credit + SumCredit(rows \ {r})

DateLE(a, b) == a[1] < b[1] \/ (a[1] = b[1] /\ a[2] <= b[2])

\* a sum_category that always nets debits against credits
sum_category_net(year_data, category, debit_credit) ==
  LET cat_data == {r \in year_data : r.FSLI_Category = category}
  IN  IF cat_data = {} THEN 0 ELSE SumDebit(cat_data) - SumCredit(cat_data)

sum_category(year_data, category, debit_credit) ==
  LET cat_data == {r \in year_data : r.FSLI_Category = category}
  IN  IF cat_data = {} THEN 0
      ELSE IF debit_credit = "debit" THEN SumDebit(cat_data)
      ELSE IF debit_credit = "credit" THEN SumCredit(cat_data)
      ELSE SumDebit(cat_data) - SumCredit(cat_data)

\* a selection that sums every record of the year in both modes
select_year_data_all_dates(df, year, is_trial_balance) ==
  {r \in df : ~IsNone(r.TxnDate) /\ Val(r.TxnDate)[1] = year}

\* a selection that keeps the latest date of the year in both modes
select_year_data_latest_only(df, year, is_trial_balance) ==
  LET year_data == {r \in df : ~IsNone(r.TxnDate) /\ Val(r.TxnDate)[1] = year}
  IN  {r \in year_data : \A q \in year_data : DateLE(Val(q.TxnDate), Val(r.TxnDate))}

\* rows of one year that enter the sums (snapshot: latest date only)
select_year_data(df, year, is_trial_balance) ==
  LET year_data == {r \in df : ~IsNone(r.TxnDate) /\ Val(r.TxnDate)[1] = year}
      latest_dt == CHOOSE d \in {Val(r.TxnDate) : r \in year_data} :
                     \A r \in year_data : DateLE(Val(r.TxnDate), d)
  IN  IF is_trial_balance
        THEN {r \in year_data : Val(r.TxnDate) = latest_dt}
        ELSE year_data

year_statement(year_data) ==
  LET revenue == sum_category(year_data, "revenue", "credit")
      cogs == sum_category(year_data, "cogs", "debit")
      distribution_expenses == sum_category(year_data, "distribution_expenses", "debit")
      marketing_admin == sum_category(year_data, "marketing_admin", "debit")
      research_dev == sum_category(year_data, "research_dev", "debit")
      depreciation_expense == sum_category(year_data, "depreciation_expense", "debit")
      interest_expense == sum_category(year_data, "interest_expense", "debit")
      tax_expense == sum_category(year_data, "tax_expense", "debit")
      gross_profit == revenue - cogs
      total_opex == distribution_expenses + marketing_admin + research_dev
                      + depreciation_expense
      ebit == gross_profit - total_opex
      ebt == ebit - interest_expense
      net_income == ebt - tax_expense
  IN  [revenue |-> revenue,
       cogs |-> cogs,
       distribution_expenses |-> distribution_expenses,
       marketing_admin |-> marketing_admin,
       research_dev |-> research_dev,
       depreciation_expense |-> depreciation_expense,
       interest_expense |-> interest_expense,
       tax_expense |-> tax_expense,
       net_income |-> net_income,
       cash |-> sum_category(year_data, "cash", "both"),
       accounts_receivable |-> sum_category(year_data, "accounts_receivable", "both"),
       inventory |-> sum_category(year_data, "inventory", "both"),
       prepaid_expenses |-> sum_category(year_data, "prepaid_expenses", "both"),
       other_current_assets |-> sum_category(year_data, "other_current_assets", "both"),
       ppe_gross |-> sum_category(year_data, "ppe_gross", "both"),
       accumulated_depreciation |->
         Abs(sum_category(year_data, "accumulated_depreciation", "both")),
       accounts_payable |-> Abs(sum_category(year_data, "accounts_payable", "both")),
       accrued_payroll |-> Abs(sum_category(year_data, "accrued_payroll", "both")),
       deferred_revenue |-> Abs(sum_category(year_data, "deferred_revenue", "both")),
       interest_payable |-> Abs(sum_category(year_data, "interest_payable", "both")),
       other_current_liabilities |->
         Abs(sum_category(year_data, "other_current_liabilities", "both")),
       income_taxes_payable |->
         Abs(sum_category(year_data, "income_taxes_payable", "both")),
       long_term_debt |-> Abs(sum_category(year_data, "long_term_debt", "both")),
       common_stock |-> Abs(sum_category(year_data, "common_stock", "both")),
       retained_earnings |-> Abs(sum_category(year_data, "retained_earnings", "both"))]

\* the "simple cash flow items" of year y against the preceding year p
simple_cash_flow(cur, pri) ==
  LET delta_ar == cur.accounts_receivable - pri.accounts_receivable
      delta_inventory == cur.inventory - pri.inventory
      delta_prepaid == cur.prepaid_expenses - pri.prepaid_expenses
      delta_other_current_assets == cur.other_current_assets - pri.other_current_assets
      delta_ap == cur.accounts_payable - pri.accounts_payable
      delta_accrued_payroll == cur.accrued_payroll - pri.accrued_payroll
      delta_deferred_revenue == cur.deferred_revenue - pri.deferred_revenue
      delta_interest_payable == cur.interest_payable - pri.interest_payable
      delta_other_current_liabilities ==
        cur.other_current_liabilities - pri.other_current_liabilities
      delta_income_taxes_payable == cur.income_taxes_payable - pri.income_taxes_payable
      delta_debt == cur.long_term_debt - pri.long_term_debt
      capex == -(cur.ppe_gross - pri.ppe_gross)
      stock_issuance == cur.common_stock - pri.common_stock
  IN  [delta_ar |-> -delta_ar,
       delta_inventory |-> -delta_inventory,
       delta_prepaid |-> -delta_prepaid,
       delta_other_current_assets |-> -delta_other_current_assets,
       delta_ap |-> delta_ap,
       delta_accrued_payroll |-> delta_accrued_payroll,
       delta_deferred_revenue |-> delta_deferred_revenue,
       delta_interest_payable |-> delta_interest_payable,
       delta_other_current_liabilities |-> delta_other_current_liabilities,
       delta_income_taxes_payable |-> delta_income_taxes_payable,
       delta_debt |-> delta_debt,
       capex |-> capex,
       stock_issuance |-> stock_issuance]

\* the element before y in the ascending list of the years in ys
PrevIn(ys, y) == CHOOSE p \in ys : p < y /\ \A q \in ys : q < y => q <= p

\* an aggregator that reports every year from the first to the last one
calculate_financial_statements_year_range(df, is_trial_balance) ==
  LET dated == {Val(r.TxnDate)[1] : r \in {r \in df : ~IsNone(r.TxnDate)}}
      years == {y \in 2000..2100 : \E a \in dated, b \in dated : a <= y /\ y <= b}
      base == [y \in years |->
                 year_statement(select_year_data(df, y, is_trial_balance))]
  IN  [y \in years |->
         IF \E p \in years : p < y
           THEN Update(base[y], simple_cash_flow(base[y], base[PrevIn(years, y)]))
           ELSE base[y]]

\* an aggregator that also gives the earliest year zero cash-flow items
calculate_financial_statements_first_year_cf(df, is_trial_balance) ==
  LET years == {Val(r.TxnDate)[1] : r \in {r \in df : ~IsNone(r.TxnDate)}}
      base == [y \in years |->
                 year_statement(select_year_data(df, y, is_trial_balance))]
  IN  [y \in years |->
         IF \E p \in years : p < y
           THEN Update(base[y], simple_cash_flow(base[y], base[PrevIn(years, y)]))
           ELSE Update(base[y], simple_cash_flow(base[y], base[y]))]

calculate_financial_statements(df, is_trial_balance) ==
  LET years == {Val(r.TxnDate)[1] : r \in {r \in df : ~IsNone(r.TxnDate)}}
      base == [y \in years |->
                 year_statement(select_year_data(df, y, is_trial_balance))]
  IN  [y \in years |->
         IF \E p \in years : p < y
           THEN Update(base[y], simple_cash_flow(base[y], base[PrevIn(years, y)]))
           ELSE base[y]]

(***************************************************************************)
(* Binary floating point (Python float, numpy.float64)                     *)
(*                                                                         *)
(* A double is [kind, sign, mant, exp]: the number sign * mant * 2^exp,    *)
(* with mant odd, or a zero (mant and exp 0) of either sign.  mant is a    *)
(* natural number of any size, written as the little-endian sequence of    *)
(* its digits in base 2^15 (<<>> is 0).  Every operation rounds its exact  *)
(* result to 53 significant bits, ties to even.  Results stay inside the   *)
(* normal range of the format: no operation of the model overflows or      *)
(* produces a subnormal.                                                   *)
(***************************************************************************)
RECURSIVE Pow2(_)
Pow2(k) == IF k = 0 THEN 1 ELSE 2 * Pow2(k - 1)

RECURSIVE IntBitLen(_)
IntBitLen(n) == IF n = 0 THEN 0 ELSE 1 + IntBitLen(n \div 2)

\* digits of a mantissa: 15 bits each, so that a product of two digits
\* stays below 2^31
Base == Pow2(15)
LimbBits == IntBitLen(Base) - 1

\* significant bits of a double
Precision == 53

RECURSIVE BigTrim(_)
BigTrim(a) ==
  IF a # <<>> /\ a[Len(a)] = 0 THEN BigTrim(SubSeq(a, 1, Len(a) - 1)) ELSE a

RECURSIVE BigFromNat(_)
BigFromNat(n) == IF n = 0 THEN <<>> ELSE <<n % Base>> \o BigFromNat(n \div Base)

Limb(a, i) == IF i <= Len(a) THEN a[i] ELSE 0

RECURSIVE BigAddFrom(_, _, _, _)
BigAddFrom(a, b, i, carry) ==
  IF i > Len(a) /\ i > Len(b) THEN (IF carry = 0 THEN <<>> ELSE <<carry>>)
  ELSE LET s == Limb(a, i) + Limb(b, i) + carry
       IN  <<s % Base>> \o BigAddFrom(a, b, i + 1, s \div Base)

BigAdd(a, b) == BigAddFrom(a, b, 1, 0)

\* a - b for a >= b
RECURSIVE BigSubFrom(_, _, _, _)
BigSubFrom(a, b, i, borrow) ==
  IF i > Len(a) THEN <<>>
  ELSE LET s == a[i] - Limb(b, i) - borrow
       IN  <<IF s < 0 THEN s + Base ELSE s>>
             \o BigSubFrom(a, b, i + 1, IF s < 0 THEN 1 ELSE 0)

BigSub(a, b) == BigTrim(BigSubFrom(a, b, 1, 0))

RECURSIVE BigCmpFrom(_, _, _)
BigCmpFrom(a, b, i) ==
  IF i = 0 THEN 0
  ELSE IF a[i] # b[i] THEN (IF a[i] < b[i] THEN -1 ELSE 1)
  ELSE BigCmpFrom(a, b, i - 1)

\* -1, 0 or 1 as a < b, a = b or a > b
BigCmp(a, b) ==
  IF Len(a) # Len(b) THEN (IF Len(a) < Len(b) THEN -1 ELSE 1)
  ELSE BigCmpFrom(a, b, Len(a))

\* a * k for 0 <= k < Base
RECURSIVE BigMulSmallFrom(_, _, _, _)
BigMulSmallFrom(a, k, i, carry) ==
  IF i > Len(a) THEN (IF carry = 0 THEN <<>> ELSE <<carry>>)
  ELSE LET p == a[i] * k + carry
       IN  <<p % Base>> \o BigMulSmallFrom(a, k, i + 1, p \div Base)

BigMulSmall(a, k) == BigTrim(BigMulSmallFrom(a, k, 1, 0))

RECURSIVE BigMul(_, _)
BigMul(a, b) ==
  IF a = <<>> \/ b = <<>> THEN <<>>
  ELSE LET high == BigMul(a, Tail(b))
       IN  BigAdd(BigMulSmall(a, Head(b)),
                  IF high = <<>> THEN <<>> ELSE <<0>> \o high)

\* a * 2^k
BigShl(a, k) ==
  IF a = <<>> THEN <<>>
  ELSE [i \in 1..(k \div LimbBits) |-> 0] \o BigMulSmall(a, Pow2(k % LimbBits))

\* <<quotient, remainder>> of a by d, 0 < d < Base; the quotient's limbs i..1
RECURSIVE BigDivSmallFrom(_, _, _, _)
BigDivSmallFrom(a, d, i, r) ==
  IF i = 0 THEN << <<>>, r >>
  ELSE LET cur == r * Base + a[i]
           rest == BigDivSmallFrom(a, d, i - 1, cur % d)
       IN  <<Append(rest[1], cur \div d), rest[2]>>

BigDivSmall(a, d) ==
  LET res == BigDivSmallFrom(a, d, Len(a), 0)
  IN  <<BigTrim(res[1]), res[2]>>

\* floor(a / 2^k)
BigShr(a, k) ==
  IF k \div LimbBits >= Len(a) THEN <<>>
  ELSE BigDivSmall(SubSeq(a, (k \div LimbBits) + 1, Len(a)),
                   Pow2(k % LimbBits))[1]

BigBitLen(a) ==
  IF a = <<>> THEN 0 ELSE (Len(a) - 1) * LimbBits + IntBitLen(a[Len(a)])

\* the largest digit d of lo..hi with b * d <= r
RECURSIVE BigDigit(_, _, _, _)
BigDigit(r, b, lo, hi) ==
  IF lo = hi THEN lo
  ELSE LET mid == (lo + hi + 1) \div 2
       IN  IF BigCmp(BigMulSmall(b, mid), r) <= 0
             THEN BigDigit(r, b, mid, hi) ELSE BigDigit(r, b, lo, mid - 1)

\* long division, one limb of a at a time: limbs i..1 are still to come
RECURSIVE BigDivModFrom(_, _, _, _)
BigDivModFrom(a, b, i, r) ==
  IF i = 0 THEN << <<>>, r >>
  ELSE LET cur == BigTrim(<<a[i]>> \o r)
           d == BigDigit(cur, b, 0, Base - 1)
           rest == BigDivModFrom(a, b, i - 1, BigSub(cur, BigMulSmall(b, d)))
       IN  <<Append(rest[1], d), rest[2]>>

\* <<quotient, remainder>> of a by b, b # 0
BigDivMod(a, b) ==
  IF Len(b) = 1
    THEN LET res == BigDivSmall(a, b[1]) IN <<res[1], BigFromNat(res[2])>>
  ELSE LET res == BigDivModFrom(a, b, Len(a), <<>>)
       IN  <<BigTrim(res[1]), res[2]>>

Number(sign, mant, exp) ==
  [kind |-> "number", sign |-> sign, mant |-> mant, exp |-> exp]

\* 0.0 and -0.0: equal under every comparison, distinct as values
Zero == Number(1, <<>>, 0)
NegativeZero == Number(-1, <<>>, 0)
NaN == [kind |-> "NaN", sign |-> 1, mant |-> <<>>, exp |-> 0]
Infinity(sign) == [kind |-> "Infinity", sign |-> sign, mant |-> <<>>, exp |-> 0]

\* the number sign * m * 2^e with its mantissa made odd
RECURSIVE Canonical(_, _, _)
Canonical(sign, m, e) ==
  IF m = <<>> THEN Number(sign, <<>>, 0)
  ELSE IF m[1] = 0 THEN Canonical(sign, Tail(m), e + LimbBits)
  ELSE LET z == CHOOSE z \in 0..(LimbBits - 1) :
                  m[1] % Pow2(z) = 0 /\ m[1] % Pow2(z + 1) # 0
       IN  Number(sign, BigDivSmall(m, Pow2(z))[1], e + z)

\* sign * m * 2^e rounded to 53 bits, ties to even; sticky: the exact value
\* lies strictly above m * 2^e (a division with a remainder)
float_round(sign, m, e, sticky) ==
  LET k == BigBitLen(m) - Precision
  IN  IF k <= 0 THEN Canonical(sign, m, e)
      ELSE LET q == BigShr(m, k)
               c == BigCmp(BigSub(m, BigShl(q, k)), BigShl(<<1>>, k - 1))
               up == c > 0 \/ (c = 0 /\ (sticky \/ q[1] % 2 = 1))
           IN  Canonical(sign, IF up THEN BigAdd(q, <<1>>) ELSE q, e + k)

\* float(n) for an integer n
float(n) == Canonical(IF n < 0 THEN -1 ELSE 1, BigFromNat(Abs(n)), 0)

float_neg(x) == [x EXCEPT !.sign = -x.sign]

float_abs(x) == [x EXCEPT !.sign = 1]

float_mul(x, y) ==
  float_round(x.sign * y.sign, BigMul(x.mant, y.mant), x.exp + y.exp, FALSE)

\* x + y; an operand below a quarter of the other's last bit changes nothing
float_add(x, y) ==
  LET tx == BigBitLen(x.mant) + x.exp
      ty == BigBitLen(y.mant) + y.exp
      e == IF x.exp <= y.exp THEN x.exp ELSE y.exp
      a == BigShl(x.mant, x.exp - e)
      b == BigShl(y.mant, y.exp - e)
      c == BigCmp(a, b)
  IN  IF x.mant = <<>> /\ y.mant = <<>>
        THEN (IF x.sign = -1 /\ y.sign = -1 THEN NegativeZero ELSE Zero)
      ELSE IF x.mant = <<>> THEN y
      ELSE IF y.mant = <<>> THEN x
      ELSE IF tx > ty + Precision + 2 THEN x
      ELSE IF ty > tx + Precision + 2 THEN y
      ELSE IF x.sign = y.sign THEN float_round(x.sign, BigAdd(a, b), e, FALSE)
      ELSE IF c = 0 THEN Zero
      ELSE IF c > 0 THEN float_round(x.sign, BigSub(a, b), e, FALSE)
      ELSE float_round(y.sign, BigSub(b, a), e, FALSE)

float_sub(x, y) == float_add(x, float_neg(y))

\* x / y for y # 0: the quotient carries at least 55 bits before rounding
float_truediv(x, y) ==
  IF x.mant = <<>> THEN Number(x.sign * y.sign, <<>>, 0)
  ELSE LET k == Max(0, Precision + 2 + BigBitLen(y.mant) - BigBitLen(x.mant))
           d == BigDivMod(BigShl(x.mant, k), y.mant)
       IN  float_round(x.sign * y.sign, d[1], x.exp - y.exp - k, d[2] # <<>>)

\* -1, 0 or 1 as x < y, x = y or x > y
float_cmp(x, y) ==
  LET sx == IF x.mant = <<>> THEN 0 ELSE x.sign
      sy == IF y.mant = <<>> THEN 0 ELSE y.sign
      tx == BigBitLen(x.mant) + x.exp
      ty == BigBitLen(y.mant) + y.exp
      e == IF x.exp <= y.exp THEN x.exp ELSE y.exp
  IN  IF sx # sy THEN (IF sx < sy THEN -1 ELSE 1)
      ELSE IF sx = 0 THEN 0
      ELSE IF tx # ty THEN (IF tx < ty THEN -sx ELSE sx)
      ELSE sx * BigCmp(BigShl(x.mant, x.exp - e), BigShl(y.mant, y.exp - e))

float_gt(x, y) == float_cmp(x, y) > 0
float_lt(x, y) == float_cmp(x, y) < 0

\* max(a, b) of Python: the first argument unless the second is greater
float_max(x, y) == IF float_gt(y, x) THEN y ELSE x

\* the double a decimal literal num/den denotes (correctly rounded)
Decimal(num, den) == float_truediv(float(num), float(den))

(***************************************************************************)
(* excel_writer.py: TB + GL merger with dividends and cash-flow drivers    *)
(***************************************************************************)
is_keys == <<"revenue", "cogs", "distribution_expenses", "marketing_admin",
             "research_dev", "depreciation_expense", "interest_expense",
             "tax_expense", "net_income">>

bs_keys == <<"cash", "accounts_receivable", "inventory", "prepaid_expenses",
             "other_current_assets", "ppe_gross", "accumulated_depreciation",
             "accounts_payable", "accrued_payroll", "deferred_revenue",
             "interest_payable", "other_current_liabilities",
             "income_taxes_payable", "long_term_debt", "common_stock",
             "retained_earnings">>

wc_keys == <<
    <<"accounts_receivable", "delta_ar", -1>>,
    <<"inventory", "delta_inventory", -1>>,
    <<"prepaid_expenses", "delta_prepaid", -1>>,
    <<"other_current_assets", "delta_other_current_assets", -1>>,
    <<"accounts_payable", "delta_ap", 1>>,
    <<"accrued_payroll", "delta_accrued_payroll", 1>>,
    <<"deferred_revenue", "delta_deferred_revenue", 1>>,
    <<"interest_payable", "delta_interest_payable", 1>>,
    <<"other_current_liabilities", "delta_other_current_liabilities", 1>>,
    <<"income_taxes_payable", "delta_income_taxes_payable", 1>> >>

Range(seq) == {seq[i] : i \in DOMAIN seq}

\* d.setdefault(k, 0.0) for every k in keys
SetDefaults(d, keys) == d @@ [k \in Range(keys) |-> 0]

\* all_years = sorted(set(tb_fin) | set(gl_fin))
all_years(tb_fin, gl_fin) == DOMAIN tb_fin \cup DOMAIN gl_fin

\* ys[-n:] on the ascending list of ys, for n >= 0 (ys[-0:] is the whole list)
LastN(ys, n) ==
  IF n = 0 THEN ys
  ELSE {y \in ys : Cardinality({z \in ys : z > y}) < n}

\* a selection of the earliest statement_years years (all_years[:n])
stmt_years_of_earliest(years, statement_years) ==
  IF Cardinality(years) >= statement_years
    THEN {y \in years : Cardinality({z \in years : z < y}) < statement_years}
    ELSE years

stmt_years_of(years, statement_years) ==
  IF Cardinality(years) >= statement_years
    THEN LastN(years, statement_years) ELSE years

Min(S) == CHOOSE x \in S : \A y \in S : x <= y

\* a merge loop that lets GL overwrite every key of a statement year
merged_year_gl_overwrites(tb_fin, gl_fin, stmt_years, y) ==
  LET from_tb == Update(EmptyDict, IF y \in DOMAIN tb_fin THEN tb_fin[y] ELSE EmptyDict)
      gl_part == IF y \in DOMAIN gl_fin THEN gl_fin[y] ELSE EmptyDict
      with_gl == IF y \in stmt_years THEN Update(from_tb, gl_part) ELSE from_tb
      with_bs == SetDefaults(with_gl, bs_keys)
  IN  IF y \in stmt_years THEN SetDefaults(with_bs, is_keys) ELSE with_bs

\* the merge loop and the setdefault loop for one output year
merged_year(tb_fin, gl_fin, stmt_years, y) ==
  LET from_tb == Update(EmptyDict, IF y \in DOMAIN tb_fin THEN tb_fin[y] ELSE EmptyDict)
      gl_part == IF y \in DOMAIN gl_fin THEN gl_fin[y] ELSE EmptyDict
      with_gl == IF y \in stmt_years
                   THEN Update(from_tb, [k \in Range(is_keys) |-> Get(gl_part, k)])
                   ELSE from_tb
      with_bs == SetDefaults(with_gl, bs_keys)
  IN  IF y \in stmt_years THEN SetDefaults(with_bs, is_keys) ELSE with_bs

\* the roll-forward difference without the clamp at zero
dividends_unclamped(cur, pri) ==
  Get(pri, "retained_earnings") + Get(cur, "net_income") - Get(cur, "retained_earnings")

\* div = max(0.0, re_begin + ni - re_end)
dividends_of(cur, pri) ==
  Max(0, Get(pri, "retained_earnings") + Get(cur, "net_income")
           - Get(cur, "retained_earnings"))

\* cash-flow drivers that report every change with a positive sign
cash_flow_drivers_unsigned(cur, pri) ==
  [k \in {wc_keys[i][2] : i \in DOMAIN wc_keys} |->
     LET i == CHOOSE i \in DOMAIN wc_keys : wc_keys[i][2] = k
     IN  Get(cur, wc_keys[i][1]) - Get(pri, wc_keys[i][1])]
  @@ [delta_debt |-> Get(cur, "long_term_debt") - Get(pri, "long_term_debt"),
      stock_issuance |-> Get(cur, "common_stock") - Get(pri, "common_stock"),
      capex |-> Get(cur, "ppe_gross") - Get(pri, "ppe_gross")]

\* cash-flow drivers of a statement year against the preceding output year
cash_flow_drivers(cur, pri) ==
  [k \in {wc_keys[i][2] : i \in DOMAIN wc_keys} |->
     LET i == CHOOSE i \in DOMAIN wc_keys : wc_keys[i][2] = k
     IN  wc_keys[i][3] * (Get(cur, wc_keys[i][1]) - Get(pri, wc_keys[i][1]))]
  @@ [delta_debt |-> Get(cur, "long_term_debt") - Get(pri, "long_term_debt"),
      stock_issuance |-> Get(cur, "common_stock") - Get(pri, "common_stock"),
      capex |-> -(Get(cur, "ppe_gross") - Get(pri, "ppe_gross"))]

\* The statement years chosen by calculate_3statements_from_tb_gl
\* (all_years non-empty).
chosen_stmt_years(tb_fin, gl_fin, statement_years) ==
  stmt_years_of(all_years(tb_fin, gl_fin), statement_years)

\* What calculate_3statements_from_tb_gl builds once the Year0 check has
\* passed: merge loop, setdefault loop, dividends, cash-flow drivers.
merged_output(tb_fin, gl_fin, statement_years) ==
  LET stmt_years == chosen_stmt_years(tb_fin, gl_fin, statement_years)
      year0 == Min(stmt_years) - 1
      years_out == {year0} \cup stmt_years
      combined == [y \in years_out |-> merged_year(tb_fin, gl_fin, stmt_years, y)]
      prev(y) == PrevIn(years_out, y)
      with_div == [y \in years_out |->
                     IF y \in stmt_years
                       THEN Update(combined[y],
                              [dividends |-> dividends_of(combined[y], combined[prev(y)])])
                       ELSE combined[y]]
  IN  [y \in years_out |->
         IF y \in stmt_years
           THEN Update(with_div[y], cash_flow_drivers(with_div[y], with_div[prev(y)]))
           ELSE with_div[y]]

\* a merge that goes on without the opening snapshot, reading zero opening
\* balances for a Year0 the TB lacks
merge_statements_zero_opening(tb_fin, gl_fin, statement_years) ==
  IF all_years(tb_fin, gl_fin) = {} THEN [raised |-> "", value |-> EmptyDict]
  ELSE [raised |-> "", value |-> merged_output(tb_fin, gl_fin, statement_years)]

\* The body of calculate_3statements_from_tb_gl after the two aggregator
\* calls.  Result: raised = "" and value = the returned dict, or
\* raised = "ValueError" (the missing-Year0 error) and value = the empty dict.
merge_statements(tb_fin, gl_fin, statement_years) ==
  LET years == all_years(tb_fin, gl_fin)
      year0 == Min(chosen_stmt_years(tb_fin, gl_fin, statement_years)) - 1
  IN  IF years = {} THEN [raised |-> "", value |-> EmptyDict]
      ELSE IF year0 \notin DOMAIN tb_fin
        THEN [raised |-> "ValueError", value |-> EmptyDict]
        ELSE [raised |-> "", value |-> merged_output(tb_fin, gl_fin, statement_years)]

\* the two aggregator calls at the head of calculate_3statements_from_tb_gl
aggregate_source(df, is_trial_balance) ==
  IF IsNone(df) THEN EmptyDict
  ELSE calculate_financial_statements(Val(df), is_trial_balance)

calculate_3statements_from_tb_gl(tb_df, gl_df, statement_years) ==
  merge_statements(aggregate_source(tb_df, TRUE), aggregate_source(gl_df, FALSE),
                   statement_years)

(***************************************************************************)
(* excel_writer.py: reconciliation checker                                 *)
(***************************************************************************)
\* a roll-forward that starts from zero instead of Year0's retained earnings
RECURSIVE re_calc_seeded_zero(_, _)
re_calc_seeded_zero(financial_data, y) ==
  LET years == DOMAIN financial_data
  IN  IF y = Min(years) THEN 0
      ELSE re_calc_seeded_zero(financial_data, PrevIn(years, y))
             + Get(financial_data[y], "net_income")
             - Get(financial_data[y], "dividends")

\* re_calc[y] of the diagnostic roll-forward, seeded with Year0's TB value
RECURSIVE re_calc(_, _)
re_calc(financial_data, y) ==
  LET years == DOMAIN financial_data
  IN  IF y = Min(years) THEN Get(financial_data[y], "retained_earnings")
      ELSE re_calc(financial_data, PrevIn(years, y))
             + Get(financial_data[y], "net_income")
             - Get(financial_data[y], "dividends")

\* total assets that leave out the receivables
total_assets_without_receivables(fd) ==
  Get(fd, "cash") + Get(fd, "inventory") + Get(fd, "prepaid_expenses")
    + Get(fd, "other_current_assets")
    + (Get(fd, "ppe_gross") - Get(fd, "accumulated_depreciation"))

\* assets and liabilities of a year's statement as the checker totals them
total_assets(fd) ==
  LET cash == Get(fd, "cash")
      ar == Get(fd, "accounts_receivable")
      inv == Get(fd, "inventory")
      pre == Get(fd, "prepaid_expenses")
      oca == Get(fd, "other_current_assets")
      ppe_g == Get(fd, "ppe_gross")
      acc_dep == Get(fd, "accumulated_depreciation")
      net_ppe == ppe_g - acc_dep
  IN  cash + ar + inv + pre + oca + net_ppe

total_liabilities(fd) ==
  LET ap == Get(fd, "accounts_payable")
      accr == Get(fd, "accrued_payroll")
      defrev == Get(fd, "deferred_revenue")
      intpay == Get(fd, "interest_payable")
      ocl == Get(fd, "other_current_liabilities")
      taxpay == Get(fd, "income_taxes_payable")
      debt == Get(fd, "long_term_debt")
  IN  ap + accr + defrev + intpay + ocl + taxpay + debt

\* a balance-sheet check whose equity is the common stock alone
bs_check_without_retained_earnings(financial_data, y) ==
  LET fd == financial_data[y]
  IN  total_assets(fd) - (total_liabilities(fd) + Get(fd, "common_stock"))

\* a balance-sheet check that takes equity from the roll-forward
bs_check_rollforward_equity(financial_data, y) ==
  LET fd == financial_data[y]
      equity == Get(fd, "common_stock") + re_calc(financial_data, y)
  IN  total_assets(fd) - (total_liabilities(fd) + equity)

\* bs_check = assets - (liabilities + equity_tb)
bs_check(financial_data, y) ==
  LET fd == financial_data[y]
      cs == Get(fd, "common_stock")
      re_tb == Get(fd, "retained_earnings")
      equity_tb == cs + re_tb
  IN  total_assets(fd) - (total_liabilities(fd) + equity_tb)

\* working-capital total of the cash-flow check
wc_total(fd) ==
  Get(fd, "delta_ar") + Get(fd, "delta_inventory") + Get(fd, "delta_prepaid")
    + Get(fd, "delta_other_current_assets") + Get(fd, "delta_ap")
    + Get(fd, "delta_accrued_payroll") + Get(fd, "delta_deferred_revenue")
    + Get(fd, "delta_interest_payable")
    + Get(fd, "delta_other_current_liabilities")
    + Get(fd, "delta_income_taxes_payable")

\* a cash-flow check that adds dividends to financing cash flow
cf_check_dividends_added(financial_data, y) ==
  LET fd == financial_data[y]
      begin_cash == Get(financial_data[PrevIn(DOMAIN financial_data, y)], "cash")
      net_cash_change ==
        (Get(fd, "net_income") + Get(fd, "depreciation_expense") + wc_total(fd))
          + Get(fd, "capex")
          + (Get(fd, "stock_issuance") + Get(fd, "dividends") + Get(fd, "delta_debt"))
  IN  Get(fd, "cash") - (begin_cash + net_cash_change)

\* cf_check = end_cash_tb - end_cash_calc
cf_check(financial_data, y) ==
  LET fd == financial_data[y]
      prev == PrevIn(DOMAIN financial_data, y)
      ni == Get(fd, "net_income")
      div == Get(fd, "dividends")
      cash == Get(fd, "cash")
      begin_cash == Get(financial_data[prev], "cash")
      dep == Get(fd, "depreciation_expense")
      wc == wc_total(fd)
      capex == Get(fd, "capex")
      stock == Get(fd, "stock_issuance")
      deltadebt == Get(fd, "delta_debt")
      net_cash_change == (ni + dep + wc) + capex + (stock - div + deltadebt)
      end_cash_calc == begin_cash + net_cash_change
  IN  cash - end_cash_calc

reconcile_year(financial_data, y) ==
  LET re_tb == Get(financial_data[y], "retained_earnings")
      re_calc_y == re_calc(financial_data, y)
  IN  [balance_sheet_check |-> bs_check(financial_data, y),
       cashflow_check |-> cf_check(financial_data, y),
       retained_earnings_calc |-> re_calc_y,
       retained_earnings_tb |-> re_tb,
       retained_earnings_diff |-> re_tb - re_calc_y]

\* a checker that also reports the earliest year
compute_reconciliation_checks_every_year(financial_data) ==
  LET years == DOMAIN financial_data
  IN  IF Cardinality(years) < 2 THEN EmptyDict
      ELSE [y \in years |->
              IF y = Min(years)
                THEN [balance_sheet_check |-> bs_check(financial_data, y),
                      cashflow_check |-> 0,
                      retained_earnings_calc |-> re_calc(financial_data, y),
                      retained_earnings_tb |-> Get(financial_data[y], "retained_earnings"),
                      retained_earnings_diff |-> 0]
                ELSE reconcile_year(financial_data, y)]

compute_reconciliation_checks(financial_data) ==
  LET years == DOMAIN financial_data
  IN  IF Cardinality(years) < 2 THEN EmptyDict
      ELSE [y \in years \ {Min(years)} |-> reconcile_year(financial_data, y)]

(***************************************************************************)
(* Bounds of the checked input space                                       *)
(***************************************************************************)
MaxTBRows == 2
MaxGLRows == 1
MaxStatementYears == 2
MaxAccounts == 1

Years == 2021..2023
\* year-end balances of the trial balance, amounts of the ledger postings
TBMagnitudes == {1, 2}
GLMagnitudes == {1}

\* Charts of accounts of the checked ledgers: the categories booked in the
\* trial balance and in the general ledger.  Together they cover every
\* category the aggregator reads, plus two it ignores.
Charts ==
  { [tb |-> {"cash", "retained_earnings"}, gl |-> {"revenue", "cogs"}],
    [tb |-> {"accounts_receivable", "accounts_payable"}, gl |-> {"cogs"}],
    [tb |-> {"inventory", "accrued_payroll"}, gl |-> {"distribution_expenses"}],
    [tb |-> {"prepaid_expenses", "deferred_revenue"}, gl |-> {"marketing_admin"}],
    [tb |-> {"other_current_assets", "interest_payable"}, gl |-> {"research_dev"}],
    [tb |-> {"ppe_gross", "accumulated_depreciation"}, gl |-> {"depreciation_expense"}],
    [tb |-> {"other_current_liabilities", "income_taxes_payable"},
     gl |-> {"interest_expense"}],
    [tb |-> {"long_term_debt", "common_stock"}, gl |-> {"tax_expense"}],
    [tb |-> {"cash", "revenue"}, gl |-> {"cash"}],
    [tb |-> {"dividends", "unclassified"}, gl |-> {"revenue"}] }

\* categories whose balance is normally a credit
CreditNormal ==
  {"revenue", "accumulated_depreciation", "accounts_payable", "accrued_payroll",
   "deferred_revenue", "interest_payable", "other_current_liabilities",
   "income_taxes_payable", "long_term_debt", "common_stock", "retained_earnings"}

\* ledger rows of the pipeline runs: one year-end date per year, the
\* magnitude on the natural side of the account
Rows(cats, magnitudes) ==
  { [TxnDate |-> Some(<<y, 1>>), FSLI_Category |-> c,
     Debit |-> IF c \in CreditNormal THEN 0 ELSE m,
     Credit |-> IF c \in CreditNormal THEN m ELSE 0] :
      y \in Years, c \in cats, m \in magnitudes }

\* the elements of a set, listed once each in a fixed order
RECURSIVE Ordered(_)
Ordered(S) ==
  IF S = {} THEN <<>>
  ELSE LET r == CHOOSE r \in S : TRUE IN <<r>> \o Ordered(S \ {r})

\* a DataFrame holding each row of a set once
Indexed(S) == DataFrame(Ordered(S))

\* the non-decreasing lists of n numbers of lo..hi
RECURSIVE NonDecreasing(_, _, _)
NonDecreasing(lo, hi, n) ==
  IF n = 0 THEN {<<>>}
  ELSE UNION { {<<i>> \o s : s \in NonDecreasing(i, hi, n - 1)} : i \in lo..hi }

\* The DataFrames of at most n rows drawn from a universe, a row any number
\* of times.  The operations on a ledger do not depend on the order of its
\* rows, so one order per collection of rows is listed.
DataFrames(universe, n) ==
  LET row == Ordered(universe)
  IN  UNION { { DataFrame([j \in 1..k |-> row[s[j]]]) :
                  s \in NonDecreasing(1, Len(row), k) } : k \in 0..n }

Datasets(universe, n) == {None} \cup {Some(S) : S \in DataFrames(universe, n)}

\* Ledgers whose trial balance balances in the opening year y0 and in the
\* statement year y0 + 1 (cash 2 = common stock 2, then cash 3 = common
\* stock 2 + retained earnings 1), with one posting of the general ledger.
BalancedLedgers ==
  { [tb |-> Some(DataFrame(<<
               [TxnDate |-> Some(<<y0, 1>>), FSLI_Category |-> "cash",
                Debit |-> 2, Credit |-> 0],
               [TxnDate |-> Some(<<y0, 1>>), FSLI_Category |-> "common_stock",
                Debit |-> 0, Credit |-> 2],
               [TxnDate |-> Some(<<y0 + 1, 1>>), FSLI_Category |-> "cash",
                Debit |-> 3, Credit |-> 0],
               [TxnDate |-> Some(<<y0 + 1, 1>>), FSLI_Category |-> "common_stock",
                Debit |-> 0, Credit |-> 2],
               [TxnDate |-> Some(<<y0 + 1, 1>>), FSLI_Category |-> "retained_earnings",
                Debit |-> 0, Credit |-> 1] >>)),
     gl |-> Some(DataFrame(<<r>>)) ] :
      y0 \in {2021, 2022},
      r \in Rows({"revenue", "cogs"}, GLMagnitudes) }

\* The four-year ledger of the end-to-end example: year-end balances of the
\* trial balance and the yearly postings of the general ledger, 2021-2024.
ScenarioBalances ==
  [cash |-> <<100, 120, 150, 200>>,
   accounts_receivable |-> <<50, 60, 55, 70>>,
   common_stock |-> <<500, 500, 500, 500>>,
   retained_earnings |-> <<0, 30, 65, 110>>]

ScenarioPostings ==
  [revenue |-> <<1000, 1100, 1250, 1400>>,
   cogs |-> <<400, 430, 480, 520>>]

ScenarioRows(amounts) ==
  { [TxnDate |-> Some(<<2020 + i, 1>>), FSLI_Category |-> c,
     Debit |-> IF c \in CreditNormal THEN 0 ELSE amounts[c][i],
     Credit |-> IF c \in CreditNormal THEN amounts[c][i] ELSE 0] :
      c \in DOMAIN amounts, i \in 1..4 }

ScenarioLedgers ==
  { [tb |-> Some(Indexed(ScenarioRows(ScenarioBalances))),
     gl |-> Some(Indexed(ScenarioRows(ScenarioPostings)))] }

\* statement_years: int = 3
DEFAULT_STATEMENT_YEARS == 3

\* arguments of the merge calls: the default and every smaller count
StatementYearArgs == (1..MaxStatementYears) \cup {DEFAULT_STATEMENT_YEARS}

(***************************************************************************)
(* State                                                                   *)
(***************************************************************************)
VARIABLES
  stage,            \* position of the session
  tb_df, gl_df,     \* uploaded datasets: None or Some(DataFrame)
  statement_years,  \* argument of the merge call
  tb_fin, gl_fin,   \* aggregator outputs inside the merge call
  combined,         \* dict returned by the merge call
  error,            \* "" or the exception the merge call raised
  checks,           \* dict returned by the reconciliation checker
  accounts,         \* chart of accounts handed to map_accounts
  mapped,           \* DataFrame returned by map_accounts
  uploaded_file,    \* the dashboard's upload: None or Some(DataFrame)
  session_state,    \* st.session_state of the dashboard
  now,              \* the reading of pd.Timestamp.now() handed to the latest
                    \* step that takes one: None before the first such step,
                    \* or Some(<<year, day>>)
  heap,             \* the objects of a session of map_accounts calls, a
                    \* reference being a position of the sequence
  calls             \* the map_accounts calls made so far

vars == <<stage, tb_df, gl_df, statement_years, tb_fin, gl_fin, combined, error,
          checks, accounts, mapped, uploaded_file, session_state,
          now, heap, calls>>

(***************************************************************************)
(* Statement pipeline                                                      *)
(***************************************************************************)
Init ==
  /\ stage = "loaded"
  /\ \/ \E ch \in Charts :
          /\ tb_df \in Datasets(Rows(ch.tb, TBMagnitudes), MaxTBRows)
          /\ gl_df \in Datasets(Rows(ch.gl, GLMagnitudes), MaxGLRows)
     \/ \E l \in BalancedLedgers \cup ScenarioLedgers : tb_df = l.tb /\ gl_df = l.gl
  /\ statement_years = 0
  /\ tb_fin = EmptyDict /\ gl_fin = EmptyDict
  /\ combined = EmptyDict /\ error = ""
  /\ checks = EmptyDict
  /\ accounts = <<>> /\ mapped = <<>>
  /\ uploaded_file = None /\ session_state = EmptyDict
  /\ now = None
  /\ heap = <<>> /\ calls = <<>>

Merge(n) ==
  /\ stage = "loaded"
  /\ statement_years' = n
  /\ tb_fin' = aggregate_source(tb_df, TRUE)
  /\ gl_fin' = aggregate_source(gl_df, FALSE)
  /\ LET res == merge_statements(tb_fin', gl_fin', n)
     IN  /\ combined' = res.value
         /\ error' = res.raised
         /\ stage' = IF res.raised = "" THEN "merged" ELSE "failed"
  /\ UNCHANGED <<heap, calls, tb_df, gl_df, checks, accounts, mapped,
                 uploaded_file, session_state, now>>

Reconcile ==
  /\ stage = "merged"
  /\ checks' = compute_reconciliation_checks(combined)
  /\ stage' = "reconciled"
  /\ UNCHANGED <<heap, calls, tb_df, gl_df, statement_years, tb_fin, gl_fin, combined, error,
                 accounts, mapped, uploaded_file, session_state, now>>

Next == (\E n \in StatementYearArgs : Merge(n)) \/ Reconcile

Spec == Init /\ [][Next]_vars

(***************************************************************************)
(* Account classification                                                  *)
(***************************************************************************)
AccountNumbers ==
  { None, Some(1050), Some(1595), Some(1700), Some(2600), Some(7500) }

AccountRows ==
  { [AccountName |-> n, AccountNumber |-> k] : n \in AccountNames, k \in AccountNumbers }

RECURSIVE Frames(_)
Frames(n) ==
  IF n = 0 THEN {<<>>}
  ELSE {Append(f, r) : f \in Frames(n - 1), r \in AccountRows}

InitClassify ==
  /\ stage = "unmapped"
  /\ \E n \in 1..MaxAccounts : accounts \in Frames(n)
  /\ mapped = <<>>
  /\ uploaded_file = None /\ session_state = EmptyDict
  /\ now = None
  /\ heap = <<>> /\ calls = <<>>
  /\ tb_df = None /\ gl_df = None
  /\ statement_years = 0
  /\ tb_fin = EmptyDict /\ gl_fin = EmptyDict
  /\ combined = EmptyDict /\ error = ""
  /\ checks = EmptyDict

MapAccounts ==
  /\ stage = "unmapped"
  /\ mapped' = map_accounts(accounts, None)
  /\ stage' = "mapped"
  /\ UNCHANGED <<heap, calls, accounts, tb_df, gl_df, statement_years, tb_fin, gl_fin, combined,
                 error, checks, uploaded_file, session_state, now>>

NextClassify == MapAccounts

SpecClassify == InitClassify /\ [][NextClassify]_vars

(***************************************************************************)
(* Statement aggregator on its own (single-source mode)                    *)
(***************************************************************************)
MaxLedgerRows == 2

\* transaction dates of the aggregated ledgers: a value that does not parse
\* (NaT), one date in 2021 and in 2023, an interim and a year-end date in 2022
LedgerDates ==
  { None, Some(<<2021, 1>>), Some(<<2022, 1>>), Some(<<2022, 2>>), Some(<<2023, 1>>) }

\* <<Debit, Credit>> of a row: one-sided and two-sided postings
LedgerAmounts == { <<2, 0>>, <<1, 2>> }

\* categories booked together in one aggregated ledger
AggregateCharts ==
  { {"revenue", "cogs"}, {"distribution_expenses", "cash"},
    {"marketing_admin", "accounts_receivable"}, {"research_dev", "inventory"},
    {"depreciation_expense", "prepaid_expenses"},
    {"interest_expense", "other_current_assets"}, {"tax_expense", "ppe_gross"},
    {"accumulated_depreciation", "accounts_payable"},
    {"accrued_payroll", "deferred_revenue"},
    {"interest_payable", "other_current_liabilities"},
    {"income_taxes_payable", "long_term_debt"},
    {"common_stock", "retained_earnings"},
    {"unclassified", "other_fixed_assets"} }

LedgerRows(cats) ==
  { [TxnDate |-> d, FSLI_Category |-> c, Debit |-> a[1], Credit |-> a[2]] :
      d \in LedgerDates, c \in cats, a \in LedgerAmounts }

\* One dataset is uploaded: a trial balance or a general ledger.
InitAggregate ==
  /\ stage = "raw"
  /\ \E cats \in AggregateCharts :
       \E S \in DataFrames(LedgerRows(cats), MaxLedgerRows) :
         \/ tb_df = Some(S) /\ gl_df = None
         \/ tb_df = None /\ gl_df = Some(S)
  /\ statement_years = 0
  /\ tb_fin = EmptyDict /\ gl_fin = EmptyDict
  /\ combined = EmptyDict /\ error = ""
  /\ checks = EmptyDict
  /\ accounts = <<>> /\ mapped = <<>>
  /\ uploaded_file = None /\ session_state = EmptyDict
  /\ now = None
  /\ heap = <<>> /\ calls = <<>>

\* calculate_financial_statements(df, is_trial_balance=True)
AggregateTB ==
  /\ stage = "raw"
  /\ ~IsNone(tb_df)
  /\ tb_fin' = calculate_financial_statements(Val(tb_df), TRUE)
  /\ stage' = "aggregated"
  /\ UNCHANGED <<heap, calls, tb_df, gl_df, statement_years, gl_fin, combined, error, checks,
                 accounts, mapped, uploaded_file, session_state, now>>

\* calculate_financial_statements(df, is_trial_balance=False)
AggregateGL ==
  /\ stage = "raw"
  /\ ~IsNone(gl_df)
  /\ gl_fin' = calculate_financial_statements(Val(gl_df), FALSE)
  /\ stage' = "aggregated"
  /\ UNCHANGED <<heap, calls, tb_df, gl_df, statement_years, tb_fin, combined, error, checks,
                 accounts, mapped, uploaded_file, session_state, now>>

NextAggregate == AggregateTB \/ AggregateGL

SpecAggregate == InitAggregate /\ [][NextAggregate]_vars

(***************************************************************************)
(* Reconciliation checker on its own                                       *)
(***************************************************************************)
MaxInputYears == 2

\* statements handed to the checker: any of them may lack any key
PartialStatements ==
  { EmptyDict,
    [cash |-> 1],
    [cash |-> 2, net_income |-> 1],
    [retained_earnings |-> 1, dividends |-> 1],
    [accounts_payable |-> 1, delta_ap |-> 1, common_stock |-> 2] }

InitReconcile ==
  /\ stage = "merged"
  /\ \E ys \in SUBSET Years :
       /\ Cardinality(ys) <= MaxInputYears
       /\ combined \in [ys -> PartialStatements]
  /\ tb_df = None /\ gl_df = None
  /\ statement_years = 0
  /\ tb_fin = EmptyDict /\ gl_fin = EmptyDict
  /\ error = ""
  /\ checks = EmptyDict
  /\ accounts = <<>> /\ mapped = <<>>
  /\ uploaded_file = None /\ session_state = EmptyDict
  /\ now = None
  /\ heap = <<>> /\ calls = <<>>

NextReconcile == Reconcile

SpecReconcile == InitReconcile /\ [][NextReconcile]_vars

(***************************************************************************)
(* Repeated classification: a session that calls map_accounts several      *)
(* times, on the caller's frame or on a frame an earlier call returned,    *)
(* with the default ranges, a custom table or an empty one.                *)
(***************************************************************************)
MaxFrameLen == 2
MaxCalls == 3

\* the objects of the session besides the module's two dicts
CUSTOM == RANGES + 1
EMPTY == CUSTOM + 1
FRAME == EMPTY + 1

\* a custom_ranges dict of the caller
CustomRanges == <<<<"inventory", 1000, 1999>>, <<"long_term_debt", 2600, 2699>>>>

\* rows of the charts that are classified repeatedly
RepeatRows ==
  { [AccountName |-> Some(Str("Cash")), AccountNumber |-> None],
    [AccountName |-> Some(Str("Suspense")), AccountNumber |-> Some(1050)],
    [AccountName |-> Some(Str("Accrued Payroll")), AccountNumber |-> Some(2600)],
    [AccountName |-> None, AccountNumber |-> Some(1700)],
    [AccountName |-> Some(<<>>), AccountNumber |-> None] }

RECURSIVE RepeatFrames(_)
RepeatFrames(n) ==
  IF n = 0 THEN {<<>>}
  ELSE {Append(f, r) : f \in RepeatFrames(n - 1), r \in RepeatRows}

\* the frame of the given rows with the given columns only
select_columns(rows, columns) ==
  [columns |-> columns,
   rows |-> [i \in DOMAIN rows |-> [c \in columns |-> rows[i][c]]]]

\* the frames the caller holds: both columns, or the numbers alone
CallerFrames ==
  {select_columns(rows, columns) :
     rows \in UNION {RepeatFrames(n) : n \in 1..MaxFrameLen},
     columns \in {{"AccountName", "AccountNumber"}, {"AccountNumber"}}}

InitReclassify ==
  /\ stage = "unmapped"
  /\ accounts = <<>> /\ mapped = <<>>
  /\ uploaded_file = None /\ session_state = EmptyDict
  /\ now = None
  /\ \E df \in CallerFrames :
       heap = <<AliasesDict, DEFAULT_ACCOUNT_RANGES, CustomRanges, <<>>, df>>
  /\ calls = <<>>
  /\ tb_df = None /\ gl_df = None
  /\ statement_years = 0
  /\ tb_fin = EmptyDict /\ gl_fin = EmptyDict
  /\ combined = EmptyDict /\ error = ""
  /\ checks = EmptyDict

\* the table map_account_by_range scans for the argument custom_ranges
effective_ranges(objects, custom_ranges) ==
  IF IsNone(custom_ranges) \/ Len(objects[Val(custom_ranges)]) = 0
    THEN objects[RANGES] ELSE objects[Val(custom_ranges)]

\* the record of a call: its arguments, the values they had when it was
\* made, and what it returned
call_record(objects, df, custom_ranges, run) ==
  [df |-> df, custom_ranges |-> custom_ranges,
   given |-> objects[df],
   ranges |-> effective_ranges(objects, custom_ranges),
   result |-> run.result,
   returned |-> run.heap[run.result]]

\* one call of map_accounts on a frame of the session
CallMapAccounts ==
  /\ Len(calls) < MaxCalls
  /\ \E df \in FRAME..Len(heap),
        custom_ranges \in {None, Some(CUSTOM), Some(EMPTY)} :
       \E run \in {map_accounts_call(heap, df, custom_ranges)} :
         /\ heap' = run.heap
         /\ calls' = Append(calls, call_record(heap, df, custom_ranges, run))
  /\ UNCHANGED <<stage, accounts, mapped, tb_df, gl_df, statement_years, tb_fin,
                 gl_fin, combined, error, checks, uploaded_file, session_state,
                 now>>

NextReclassify == CallMapAccounts

SpecReclassify == InitReclassify /\ [][NextReclassify]_vars

(***************************************************************************)
(* Classification of the alias strings themselves                          *)
(***************************************************************************)
\* (category, alias) for every alias of the table
AliasEntries ==
  UNION { { <<ACCOUNT_NAME_ALIASES[i][1], ACCOUNT_NAME_ALIASES[i][2][j]>> :
              j \in DOMAIN ACCOUNT_NAME_ALIASES[i][2] } :
          i \in DOMAIN ACCOUNT_NAME_ALIASES }

InitAliases ==
  /\ stage = "unmapped"
  /\ \E e \in AliasEntries :
       accounts = <<[AccountName |-> Some(Str(e[2])), AccountNumber |-> None]>>
  /\ mapped = <<>>
  /\ uploaded_file = None /\ session_state = EmptyDict
  /\ now = None
  /\ heap = <<>> /\ calls = <<>>
  /\ tb_df = None /\ gl_df = None
  /\ statement_years = 0
  /\ tb_fin = EmptyDict /\ gl_fin = EmptyDict
  /\ combined = EmptyDict /\ error = ""
  /\ checks = EmptyDict

NextAliases == MapAccounts

SpecAliases == InitAliases /\ [][NextAliases]_vars

(***************************************************************************)
(* Ratios and percentages (ai_summary.py, streamlit_app.py)                *)
(*                                                                         *)
(* A derived figure is a double, NaN, an infinity, or the raise of         *)
(* ZeroDivisionError.  The text formatting of the figures ({x:.1f}) is     *)
(* not modelled: the summary is the collection of figures it prints.       *)
(***************************************************************************)
ZeroDivisionError == [kind |-> "ZeroDivisionError", sign |-> 1, mant |-> <<>>, exp |-> 0]

\* `(n / d * 100) if d > 0 else 0`
guarded_percent(n, d) ==
  IF float_gt(d, Zero) THEN float_mul(float_truediv(n, d), float(100)) ELSE Zero

\* `((latest / first - 1) * 100) if first > 0 else 0`
guarded_growth(latest, first) ==
  IF float_gt(first, Zero)
    THEN float_mul(float_sub(float_truediv(latest, first), float(1)), float(100))
    ELSE Zero

\* `(n / d) if d > 0 else 0`
guarded_quotient(n, d) ==
  IF float_gt(d, Zero) THEN float_truediv(n, d) ELSE Zero

\* `n / d` with no guard: the outcomes of a division by zero are those of
\* numpy scalars (NaN for 0/0, a signed infinity otherwise) and of Python
\* numbers (ZeroDivisionError); which one applies depends on the dtype of
\* the amount columns, which the code does not fix.
true_divide(n, d) ==
  IF d # 0 THEN {float_truediv(float(n), float(d))}
  ELSE {IF n = 0 THEN NaN ELSE Infinity(IF n > 0 THEN 1 ELSE -1),
        ZeroDivisionError}

\* ---- generate_rule_based_summary ----------------------------------------
summary_opex_keys ==
  <<"distribution_expenses", "marketing_admin", "research_dev",
    "depreciation_expense">>
summary_cost_keys ==
  <<"distribution_expenses", "marketing_admin", "research_dev",
    "depreciation_expense", "interest_expense", "tax_expense">>
summary_asset_keys ==
  <<"cash", "accounts_receivable", "inventory", "prepaid_expenses",
    "other_current_assets", "ppe_gross">>
summary_liability_keys ==
  <<"accounts_payable", "accrued_payroll", "deferred_revenue",
    "interest_payable", "other_current_liabilities",
    "income_taxes_payable", "long_term_debt">>
summary_equity_keys == <<"common_stock", "retained_earnings">>
summary_delta_keys ==
  <<"delta_ar", "delta_inventory", "delta_prepaid",
    "delta_other_current_assets", "delta_ap", "delta_accrued_payroll",
    "delta_deferred_revenue", "delta_interest_payable",
    "delta_other_current_liabilities", "delta_income_taxes_payable">>

RECURSIVE SumKeys(_, _)
SumKeys(d, keys) ==
  IF keys = <<>> THEN 0 ELSE Get(d, Head(keys)) + SumKeys(d, Tail(keys))

summary_net_income(st) ==
  Get(st, "revenue") - Get(st, "cogs") - SumKeys(st, summary_cost_keys)

income_statement_analysis(latest) ==
  LET revenue == Get(latest, "revenue")
      gross_profit == revenue - Get(latest, "cogs")
      ebit == gross_profit - SumKeys(latest, summary_opex_keys)
      net_income == ebit - Get(latest, "interest_expense")
                      - Get(latest, "tax_expense")
  IN  [revenue |-> revenue,
       gross_margin |-> guarded_percent(float(gross_profit), float(revenue)),
       ebit_margin |-> guarded_percent(float(ebit), float(revenue)),
       net_margin |-> guarded_percent(float(net_income), float(revenue)),
       net_income |-> net_income]

trend_analysis(first, latest) ==
  LET rev_first == Get(first, "revenue")
      rev_latest == Get(latest, "revenue")
      ni_first == summary_net_income(first)
      ni_latest == summary_net_income(latest)
  IN  [rev_growth |-> guarded_growth(float(rev_latest), float(rev_first)),
       ni_growth |-> guarded_growth(float(ni_latest), float(ni_first))]

balance_sheet_analysis(latest) ==
  LET total_liab == SumKeys(latest, summary_liability_keys)
      total_equity == SumKeys(latest, summary_equity_keys)
  IN  [total_assets |-> SumKeys(latest, summary_asset_keys)
                          - Get(latest, "accumulated_depreciation"),
       total_liab |-> total_liab,
       total_equity |-> total_equity,
       debt_to_equity |-> guarded_quotient(float(total_liab), float(total_equity))]

cash_flow_analysis(latest) ==
  [cfo |-> summary_net_income(latest) + Get(latest, "depreciation_expense")
             + SumKeys(latest, summary_delta_keys),
   cfi |-> Get(latest, "capex"),
   cff |-> Get(latest, "stock_issuance") - Get(latest, "dividends")
             + Get(latest, "delta_debt")]

key_observations(latest, has_balance_sheet) ==
  LET net_margin == guarded_percent(float(summary_net_income(latest)),
                                    float(Get(latest, "revenue")))
      debt_to_equity == guarded_quotient(float(SumKeys(latest, summary_liability_keys)),
                                         float(SumKeys(latest, summary_equity_keys)))
  IN  [profitability |-> IF float_gt(net_margin, float(15)) THEN "strong"
                         ELSE IF float_gt(net_margin, float(5)) THEN "moderate"
                         ELSE "low"]
      @@ (IF has_balance_sheet
          THEN [leverage |-> IF float_lt(debt_to_equity, float(1)) THEN "conservative"
                             ELSE IF float_lt(debt_to_equity, float(2)) THEN "moderate"
                             ELSE "high"]
          ELSE EmptyDict)

LastYear(S) == CHOOSE x \in S : \A y \in S : y <= x

\* the figures and observations of the summary text, by section
generate_rule_based_summary(financial_data, has_balance_sheet, has_cash_flow) ==
  LET years == DOMAIN financial_data
      n == Cardinality(years)
      first == financial_data[Min(years)]
      latest == financial_data[LastYear(years)]
  IN  (IF n >= 1 THEN income_statement_analysis(latest) ELSE EmptyDict)
      @@ (IF n >= 2 THEN trend_analysis(first, latest) ELSE EmptyDict)
      @@ (IF has_balance_sheet /\ n >= 1
          THEN balance_sheet_analysis(latest) ELSE EmptyDict)
      @@ (IF has_cash_flow /\ n >= 2
          THEN cash_flow_analysis(latest) ELSE EmptyDict)
      @@ (IF n >= 1 THEN key_observations(latest, has_balance_sheet)
          ELSE EmptyDict)
      @@ [note_no_balance_sheet |-> ~has_balance_sheet,
          note_no_cash_flow |-> ~has_cash_flow]

\* ---- dashboard (streamlit_app.py) ---------------------------------------
\* The sums of the amount columns are whole numbers; the figures derived
\* with the rates 0.30, 0.05, 0.1 and 0.3, and the margins, are doubles.
\* yd['AccountNumber'].between(lo, hi): False for a missing number
between(r, lo, hi) ==
  /\ ~IsNone(r.AccountNumber)
  /\ Val(r.AccountNumber) >= lo /\ Val(r.AccountNumber) <= hi
between_debit(yd, lo, hi) == SumDebit({r \in yd : between(r, lo, hi)})
between_credit(yd, lo, hi) == SumCredit({r \in yd : between(r, lo, hi)})

dashboard_year(yd) ==
  LET rev == between_credit(yd, 4000, 4999)
      cogs == between_debit(yd, 5000, 5999)
      sal == between_debit(yd, 6000, 6099)
      rent == between_debit(yd, 6100, 6199)
      mkt == between_debit(yd, 6200, 6299)
      it == between_debit(yd, 6300, 6399)
      trv == between_debit(yd, 6400, 6499)
      dep == between_debit(yd, 6500, 6599)
      oopex == between_debit(yd, 6600, 7999)
      topex == sal + rent + mkt + it + trv + dep + oopex
      gp == rev - cogs
      ebit == gp - topex
      int == between_debit(yd, 7000, 7099)
      ebt == ebit - int
      tax == IF ebt > 0 THEN float_mul(float(ebt), Decimal(30, 100)) ELSE Zero
      ni == float_sub(float(ebt), tax)
      cash == between_debit(yd, 1000, 1099) - between_credit(yd, 1000, 1099)
      ar == between_debit(yd, 1100, 1199) - between_credit(yd, 1100, 1199)
      inv == between_debit(yd, 1200, 1299) - between_credit(yd, 1200, 1299)
      oca == between_debit(yd, 1300, 1499) - between_credit(yd, 1300, 1499)
      ca == cash + ar + inv + oca
      ppeg == between_debit(yd, 1500, 1599)
      acdep == between_credit(yd, 1600, 1699)
      ppen == ppeg - acdep
      ofa == between_debit(yd, 1700, 1999) - between_credit(yd, 1700, 1999)
      fa == ppen + ofa
      ta == ca + fa
      ap == Abs(between_credit(yd, 2000, 2099) - between_debit(yd, 2000, 2099))
      acc == Abs(between_credit(yd, 2100, 2199) - between_debit(yd, 2100, 2199))
      ocl == Abs(between_credit(yd, 2200, 2499) - between_debit(yd, 2200, 2499))
      cl == ap + acc + ocl
      ltd == Abs(between_credit(yd, 2500, 2999) - between_debit(yd, 2500, 2999))
      tl == cl + ltd
      cs == Abs(between_credit(yd, 3000, 3099) - between_debit(yd, 3000, 3099))
      re == ta - tl - cs
      te == cs + re
      cffo == float_add(float_add(ni, float(dep)),
                        float_mul(Decimal(5, 100), float(rev)))
      capex == float_mul(float_neg(Decimal(1, 10)), float(rev))
      cfi == capex
      div == IF float_gt(ni, Zero) THEN float_mul(float_neg(Decimal(3, 10)), ni)
             ELSE Zero
      cff == div
      ncc == float_add(float_add(cffo, cfi), cff)
  IN  [revenue |-> rev, cogs |-> cogs, gross_profit |-> gp, salaries |-> sal,
       rent |-> rent, marketing |-> mkt, it_expense |-> it, travel |-> trv,
       depreciation |-> dep, other_opex |-> oopex, total_opex |-> topex,
       ebit |-> ebit, interest |-> int, ebt |-> ebt, tax |-> tax,
       net_income |-> ni, cash |-> cash, ar |-> ar, inventory |-> inv,
       other_current_assets |-> oca, current_assets |-> ca, ppe_net |-> ppen,
       other_fixed_assets |-> ofa, fixed_assets |-> fa, total_assets |-> ta,
       ap |-> ap, accrued |-> acc, other_current_liab |-> ocl,
       current_liab |-> cl, long_term_debt |-> ltd, total_liab |-> tl,
       common_stock |-> cs, retained_earnings |-> re, total_equity |-> te,
       cffo |-> cffo, capex |-> capex, cfi |-> cfi, dividends |-> div,
       cff |-> cff, net_cash_change |-> ncc,
       gross_margin |-> guarded_percent(float(gp), float(rev)),
       ebit_margin |-> guarded_percent(float(ebit), float(rev)),
       net_margin |-> guarded_percent(ni, float(rev))]


(***************************************************************************)
(* validation.py                                                           *)
(*                                                                         *)
(* A frame is [columns, rows] after _normalize_types: headers carry their  *)
(* standard names, TxnDate is None (NaT) or Some(<<year, day>>), and a     *)
(* Debit, Credit or AccountNumber that does not parse is None (NaN).  A    *)
(* row is [Index, TxnDate, AccountNumber, Debit, Credit, TransactionID]; a *)
(* field is read only when its column is in the frame.  Amounts are whole  *)
(* units; the tolerances are doubles.                                      *)
(***************************************************************************)

required_columns == {"TxnDate", "AccountNumber", "AccountName", "Debit", "Credit"}

\* check_required_columns: (ok, missing)
check_required_columns(df) == required_columns \ df.columns

\* Series.sum(skipna=True) of a column
RECURSIVE nansum(_, _)
nansum(rows, col) ==
  IF rows = {} THEN 0
  ELSE LET r == CHOOSE r \in rows : TRUE
       IN  (IF IsNone(r[col]) THEN 0 ELSE Val(r[col])) + nansum(rows \ {r}, col)

\* _tolerance: float(max(tolerance_abs, max_amount * tolerance_rel))
tolerance(max_amount, tolerance_abs, tolerance_rel) ==
  float_max(tolerance_abs, float_mul(max_amount, tolerance_rel))

\* Abs_Diff > Tol for the sums of a group of rows
out_of_balance(rows, tolerance_abs, tolerance_rel) ==
  LET debit == nansum(rows, "Debit")
      credit == nansum(rows, "Credit")
  IN  float_gt(float(Abs(debit - credit)),
               tolerance(float(Max(debit, credit)), tolerance_abs, tolerance_rel))

Issue(severity, category, issue, auto_fix) ==
  [severity |-> severity, category |-> category, issue |-> issue,
   auto_fix |-> auto_fix]

When(cond, issue) == IF cond THEN <<issue>> ELSE <<>>

coercion_note == Some("Attempted numeric coercion")

\* a validate_trial_balance without the check of the overall totals
validate_trial_balance_periods_only(df, tolerance_abs, tolerance_rel) ==
  IF IsNone(df) \/ Val(df).rows = {} THEN <<>>
  ELSE
  LET d == Val(df)
  IN  IF check_required_columns(d) # {}
      THEN <<Issue("Critical", "Missing Columns", "required columns missing", None)>>
      ELSE
      LET bad_amt == {r \in d.rows : IsNone(r.Debit) \/ IsNone(r.Credit)}
          df_chk == {r \in d.rows : ~IsNone(r.TxnDate)}
          dates == {r.TxnDate : r \in df_chk}
          unbalanced == {t \in dates :
                           out_of_balance({r \in df_chk : r.TxnDate = t},
                                          tolerance_abs, tolerance_rel)}
      IN  When(bad_amt # {}, Issue("Warning", "Parsing", "non-numeric", coercion_note))
          \o When(df_chk # d.rows, Issue("Warning", "Missing Data", "invalid TxnDate", None))
          \o When(unbalanced # {}, Issue("Critical", "Trial Balance", "periods", None))

validate_trial_balance(df, tolerance_abs, tolerance_rel) ==
  IF IsNone(df) \/ Val(df).rows = {} THEN <<>>
  ELSE
  LET d == Val(df)
  IN  IF check_required_columns(d) # {}
      THEN <<Issue("Critical", "Missing Columns", "required columns missing", None)>>
      ELSE
      LET bad_amt == {r \in d.rows : IsNone(r.Debit) \/ IsNone(r.Credit)}
          df_chk == {r \in d.rows : ~IsNone(r.TxnDate)}
          dates == {r.TxnDate : r \in df_chk}
          unbalanced == {t \in dates :
                           out_of_balance({r \in df_chk : r.TxnDate = t},
                                          tolerance_abs, tolerance_rel)}
      IN  When(bad_amt # {}, Issue("Warning", "Parsing", "non-numeric", coercion_note))
          \o When(df_chk # d.rows, Issue("Warning", "Missing Data", "invalid TxnDate", None))
          \o When(unbalanced # {}, Issue("Critical", "Trial Balance", "periods", None))
          \o When(out_of_balance(df_chk, tolerance_abs, tolerance_rel),
                  Issue("Critical", "Trial Balance", "overall", None))

(***************************************************************************)
(* Trial-balance validator on its own                                      *)
(***************************************************************************)
MaxValidatedRows == 3

\* (tolerance_abs, tolerance_rel): the defaults (0.01, 0.0001), absolute
\* 1.5 alone, no tolerance, and relative 0.0003 alone
ToleranceArgs ==
  { <<Decimal(1, 100), Decimal(1, 10000)>>, <<Decimal(15, 10), Zero>>,
    <<Zero, Zero>>, <<Zero, Decimal(3, 10000)>> }

ValidationDates == {None, Some(<<2022, 1>>), Some(<<2022, 2>>)}

\* (Debit, Credit) of a row; None is an amount that did not parse
AmountPairs ==
  {<<Some(1), Some(0)>>, <<Some(0), Some(1)>>, <<Some(10000), Some(0)>>,
   <<Some(0), Some(9997)>>, <<None, Some(1)>>}

TBValidationRows ==
  { [TxnDate |-> t, AccountNumber |-> Some(a), Debit |-> m[1], Credit |-> m[2],
     TransactionID |-> None] :
      t \in ValidationDates, a \in {1000}, m \in AmountPairs }

TBFrames ==
  {None} \cup
  { Some([columns |-> c, rows |-> S]) :
      c \in {required_columns, required_columns \ {"AccountName"}},
      S \in DataFrames(TBValidationRows, MaxValidatedRows) }

InitTrialBalance ==
  /\ stage = "uploaded"
  /\ tb_df \in TBFrames
  /\ gl_df = None
  /\ statement_years = 0
  /\ tb_fin = EmptyDict /\ gl_fin = EmptyDict /\ combined = EmptyDict
  /\ error = ""
  /\ checks = <<>>
  /\ accounts = <<>> /\ mapped = <<>>
  /\ uploaded_file = None /\ session_state = EmptyDict
  /\ now = None
  /\ heap = <<>> /\ calls = <<>>

\* validate_trial_balance(tb_df, tolerance_abs, tolerance_rel); the chosen
\* tolerances are kept in `accounts`
ValidateTrialBalance(tolerance_abs, tolerance_rel) ==
  /\ stage = "uploaded"
  /\ checks' = validate_trial_balance(tb_df, tolerance_abs, tolerance_rel)
  /\ accounts' = <<tolerance_abs, tolerance_rel>>
  /\ stage' = "validated"
  /\ UNCHANGED <<heap, calls, tb_df, gl_df, statement_years, tb_fin, gl_fin, combined,
                 error, mapped, uploaded_file, session_state, now>>

NextTrialBalance == \E t \in ToleranceArgs : ValidateTrialBalance(t[1], t[2])

SpecTrialBalance == InitTrialBalance /\ [][NextTrialBalance]_vars

(***************************************************************************)
(* Common checks and auto-fixes                                            *)
(*                                                                         *)
(* Here the rows of a frame are a sequence, because drop_duplicates keeps  *)
(* the first row of each TransactionID.                                    *)
(*                                                                         *)
(* pd.Timestamp.now() is an input of every call that consults it: the      *)
(* call is handed one of the Instants, given by the day <<year, day>> the  *)
(* clock shows.  A date of the data is the midnight that begins its day,   *)
(* so it is later than a reading exactly when its day is later than the    *)
(* day of the reading.  The clock is taken not to be set back: a reading   *)
(* is never earlier than the one before it.                                *)
(***************************************************************************)
Instants == {<<2026, 1>>, <<2026, 302>>}

\* what pd.Timestamp.now() can return after the reading `last`
ClockReadings(last) ==
  {t \in Instants : IsNone(last) \/ DateLE(Val(last), t)}

UNCLASSIFIED_ACCOUNT == 9999
MAX_ACCOUNT_NUMBER == 99999

\* `TxnDate > clock` (False for NaT)
IsFuture(t, clock) == ~IsNone(t) /\ ~DateLE(Val(t), clock)

Count(rows, Test(_)) == Cardinality({i \in DOMAIN rows : Test(rows[i])})

validate_common_issues(df, clock) ==
  IF IsNone(df) \/ Val(df).rows = <<>> THEN <<>>
  ELSE
  LET d == Val(df)
      has(c) == c \in d.columns
      missing_dates(r) == IsNone(r.TxnDate)
      missing_acct(r) == IsNone(r.AccountNumber)
      invalid_acct(r) ==
        /\ ~IsNone(r.AccountNumber)
        /\ (Val(r.AccountNumber) < 0 \/ Val(r.AccountNumber) > MAX_ACCOUNT_NUMBER)
      duplicates(r) ==
        Cardinality({i \in DOMAIN d.rows :
                       d.rows[i].TransactionID = r.TransactionID}) > 1
      future_dates(r) == IsFuture(r.TxnDate, clock)
  IN  When(has("TxnDate") /\ Count(d.rows, missing_dates) > 0,
           Issue("Warning", "Missing Data", "missing TxnDate",
                 Some("remove_missing_dates")))
      \o When(has("AccountNumber") /\ Count(d.rows, missing_acct) > 0,
              Issue("Critical", "Missing Data", "without AccountNumber",
                    Some("map_unclassified")))
      \o When(has("AccountNumber") /\ Count(d.rows, invalid_acct) > 0,
              Issue("Critical", "Data Quality", "invalid AccountNumber",
                    Some("fix_account_numbers")))
      \o When(has("TransactionID") /\ Count(d.rows, duplicates) > 0,
              Issue("Warning", "Duplicates", "duplicated TransactionID",
                    Some("remove_duplicates")))
      \o When(has("TxnDate") /\ Count(d.rows, future_dates) > 0,
              Issue("Warning", "Data Quality", "future-dated",
                    Some("remove_future_dates")))

\* df.drop_duplicates(subset=["TransactionID"], keep="first")
RECURSIVE drop_duplicates(_, _)
drop_duplicates(rows, seen) ==
  IF rows = <<>> THEN <<>>
  ELSE IF Head(rows).TransactionID \in seen
       THEN drop_duplicates(Tail(rows), seen)
       ELSE <<Head(rows)>>
              \o drop_duplicates(Tail(rows), seen \cup {Head(rows).TransactionID})

MapRows(rows, F(_)) == [i \in DOMAIN rows |-> F(rows[i])]

\* one step of apply_auto_fixes: [rows, changes] -> [rows, changes]
FixStep(state, enabled, rows, change) ==
  IF ~enabled THEN state
  ELSE [rows |-> rows,
        changes |-> state.changes \o (IF change[2] > 0 THEN <<change>> ELSE <<>>)]

\* apply_auto_fixes: (df_fixed, changes_log); the frame is never None
apply_auto_fixes(df, selected_fixes, clock) ==
  LET has(c) == c \in df.columns
      s0 == [rows |-> df.rows, changes |-> <<>>]
      dated(r) == ~IsNone(r.TxnDate)
      r1 == SelectSeq(s0.rows, dated)
      s1 == FixStep(s0, "remove_missing_dates" \in selected_fixes /\ has("TxnDate"),
                    r1, <<"removed missing TxnDate", Len(s0.rows) - Len(r1)>>)
      not_future(r) == ~IsNone(r.TxnDate) /\ DateLE(Val(r.TxnDate), clock)
      r2 == SelectSeq(s1.rows, not_future)
      s2 == FixStep(s1, "remove_future_dates" \in selected_fixes /\ has("TxnDate"),
                    r2, <<"removed future TxnDate", Len(s1.rows) - Len(r2)>>)
      missing(r) == IsNone(r.AccountNumber)
      unclassify(r) ==
        IF missing(r) THEN [r EXCEPT !.AccountNumber = Some(UNCLASSIFIED_ACCOUNT)]
        ELSE r
      s3 == FixStep(s2, "map_unclassified" \in selected_fixes /\ has("AccountNumber"),
                    MapRows(s2.rows, unclassify),
                    <<"mapped to 9999", Count(s2.rows, missing)>>)
      neg(r) == ~IsNone(r.AccountNumber) /\ Val(r.AccountNumber) < 0
      positive(r) ==
        IF neg(r) THEN [r EXCEPT !.AccountNumber = Some(Abs(Val(r.AccountNumber)))]
        ELSE r
      s4 == FixStep(s3, "fix_account_numbers" \in selected_fixes /\ has("AccountNumber"),
                    MapRows(s3.rows, positive),
                    <<"converted negative AccountNumber", Count(s3.rows, neg)>>)
      r5 == drop_duplicates(s4.rows, {})
      s5 == FixStep(s4, "remove_duplicates" \in selected_fixes /\ has("TransactionID"),
                    r5, <<"removed duplicate TransactionID", Len(s4.rows) - Len(r5)>>)
  IN  [df |-> [columns |-> df.columns, rows |-> s5.rows], changes |-> s5.changes]

(***************************************************************************)
(* Validate, fix, validate again                                           *)
(***************************************************************************)
MaxFixRows == 2

auto_fix_tags ==
  {"remove_missing_dates", "map_unclassified", "fix_account_numbers",
   "remove_duplicates", "remove_future_dates"}

FixRows ==
  { [TxnDate |-> t, AccountNumber |-> a, TransactionID |-> i] :
      t \in {None, Some(<<2022, 1>>), Some(<<2026, 60>>), Some(<<2031, 1>>)},
      a \in {None, Some(1000), Some(-5), Some(100000)},
      i \in {None, Some("T1")} }

RECURSIVE RowSeqs(_, _)
RowSeqs(universe, n) ==
  IF n = 0 THEN {<<>>}
  ELSE LET shorter == RowSeqs(universe, n - 1)
       IN  shorter \cup {Append(s, r) : s \in shorter, r \in universe}

FixFrames ==
  { [columns |-> c, rows |-> s] :
      c \in {required_columns \cup {"TransactionID"}, required_columns},
      s \in RowSeqs(FixRows, MaxFixRows) \ {<<>>} }

InitAutoFix ==
  /\ stage = "uploaded"
  /\ gl_df \in {Some(f) : f \in FixFrames}
  /\ tb_df = None
  /\ statement_years = 0
  /\ tb_fin = EmptyDict /\ gl_fin = EmptyDict /\ combined = EmptyDict
  /\ error = ""
  /\ checks = <<>>
  /\ accounts = <<>> /\ mapped = <<>>
  /\ uploaded_file = None /\ session_state = EmptyDict
  /\ now = None
  /\ heap = <<>> /\ calls = <<>>

\* validate_common_issues(df), called when the clock shows t
ValidateCommon ==
  /\ stage = "uploaded"
  /\ \E t \in ClockReadings(now) :
       /\ checks' = validate_common_issues(gl_df, t)
       /\ now' = Some(t)
  /\ stage' = "validated"
  /\ UNCHANGED <<heap, calls, tb_df, gl_df, statement_years, tb_fin, gl_fin, combined,
                 error, accounts, mapped, uploaded_file, session_state>>

\* apply_auto_fixes(df, [F]) for a tag F of a reported issue, called when
\* the clock shows t; the tag is kept in `accounts`, the changes log in
\* `mapped`
ApplyAutoFix(F) ==
  /\ stage = "validated"
  /\ \E i \in DOMAIN checks : checks[i].auto_fix = Some(F)
  /\ \E t \in ClockReadings(now) :
       \E res \in {apply_auto_fixes(Val(gl_df), {F}, t)} :
         /\ gl_df' = Some(res.df)
         /\ mapped' = res.changes
         /\ now' = Some(t)
  /\ accounts' = <<F>>
  /\ stage' = "fixed"
  /\ UNCHANGED <<heap, calls, tb_df, statement_years, tb_fin, gl_fin, combined, error, checks,
                 uploaded_file, session_state>>

\* validate_common_issues(df_fixed), called when the clock shows t
Revalidate ==
  /\ stage = "fixed"
  /\ \E t \in ClockReadings(now) :
       /\ checks' = validate_common_issues(gl_df, t)
       /\ now' = Some(t)
  /\ stage' = "revalidated"
  /\ UNCHANGED <<heap, calls, tb_df, gl_df, statement_years, tb_fin, gl_fin, combined,
                 error, accounts, mapped, uploaded_file, session_state>>

NextAutoFix ==
  \/ ValidateCommon
  \/ \E F \in auto_fix_tags : ApplyAutoFix(F)
  \/ Revalidate

SpecAutoFix == InitAutoFix /\ [][NextAutoFix]_vars

(***************************************************************************)
(* Strict mode: Year0 validation, then the merge                           *)
(***************************************************************************)
\* validate_year0_opening_snapshot: the list of issues; df is None or a
\* frame whose rows are a set
validate_year0_opening_snapshot(tb, n) ==
  IF IsNone(tb) \/ Val(tb).rows = {} THEN <<"TB: empty">>
  ELSE IF "TxnDate" \notin Val(tb).columns THEN <<"TB: missing TxnDate column">>
  ELSE
  LET df == {r \in Val(tb).rows : ~IsNone(r.TxnDate)}
      years == {Val(r.TxnDate)[1] : r \in df}
      stmt_years == LastN(years, n)
      year0 == Min(stmt_years) - 1
  IN  IF df = {} THEN <<"TB: TxnDate column has no valid dates">>
      ELSE IF Cardinality(years) < n + 1
      THEN <<"TB: too few years">>
      ELSE IF year0 \notin years THEN <<"TB: missing Year0 opening snapshot year">>
      ELSE <<>>

StrictYears == 2020..2024

ledger_columns == {"TxnDate", "FSLI_Category", "Debit", "Credit"}

\* one snapshot (TB) or one posting (GL) in each year of a set of years
YearlyRows(ys, category) ==
  Indexed({ [TxnDate |-> Some(<<y, 1>>), FSLI_Category |-> category,
             Debit |-> IF category \in CreditNormal THEN 0 ELSE 1,
             Credit |-> IF category \in CreditNormal THEN 1 ELSE 0] : y \in ys })

InitStrict ==
  /\ stage = "loaded"
  /\ tb_df \in {None} \cup {Some(YearlyRows(ys, "cash")) : ys \in SUBSET StrictYears}
  /\ gl_df \in {None} \cup {Some(YearlyRows(ys, "revenue")) : ys \in SUBSET StrictYears}
  /\ statement_years = 0
  /\ tb_fin = EmptyDict /\ gl_fin = EmptyDict /\ combined = EmptyDict
  /\ error = ""
  /\ checks = <<>>
  /\ accounts = <<>> /\ mapped = <<>>
  /\ uploaded_file = None /\ session_state = EmptyDict
  /\ now = None
  /\ heap = <<>> /\ calls = <<>>

AsFrame(df) ==
  IF IsNone(df) THEN None ELSE Some([columns |-> ledger_columns, rows |-> Val(df)])

\* validate_year0_opening_snapshot(tb_df, n)
ValidateYear0(n) ==
  /\ stage = "loaded"
  /\ checks' = validate_year0_opening_snapshot(AsFrame(tb_df), n)
  /\ statement_years' = n
  /\ stage' = "checked"
  /\ UNCHANGED <<heap, calls, tb_df, gl_df, tb_fin, gl_fin, combined, error, accounts, mapped,
                 uploaded_file, session_state, now>>

\* calculate_3statements_from_tb_gl(tb_df, gl_df, n) with the validated n
StrictMerge ==
  /\ stage = "checked"
  /\ tb_fin' = aggregate_source(tb_df, TRUE)
  /\ gl_fin' = aggregate_source(gl_df, FALSE)
  /\ LET res == merge_statements(tb_fin', gl_fin', statement_years)
     IN  /\ combined' = res.value
         /\ error' = res.raised
         /\ stage' = IF res.raised = "" THEN "merged" ELSE "failed"
  /\ UNCHANGED <<heap, calls, tb_df, gl_df, statement_years, checks, accounts, mapped,
                 uploaded_file, session_state, now>>

NextStrict == (\E n \in StatementYearArgs : ValidateYear0(n)) \/ StrictMerge

SpecStrict == InitStrict /\ [][NextStrict]_vars

(***************************************************************************)
(* GL-activity validator                                                   *)
(***************************************************************************)
\* populated share of TransactionID below one half: 2 * non-null < len(df)
sparsely_populated(rows) ==
  2 * Cardinality({r \in rows : ~IsNone(r.TransactionID)}) < Cardinality(rows)

validate_gl_activity(df, tolerance_abs, tolerance_rel) ==
  IF IsNone(df) \/ Val(df).rows = {} THEN <<>>
  ELSE
  LET d == Val(df)
  IN  IF check_required_columns(d) # {}
      THEN <<Issue("Critical", "Missing Columns", "required columns missing", None)>>
      ELSE
      LET bad_amt == {r \in d.rows : IsNone(r.Debit) \/ IsNone(r.Credit)}
          column == "TransactionID" \in d.columns
          sparse == column /\ sparsely_populated(d.rows)
          has_txnid == column /\ ~sparse
          txn_df == {r \in d.rows : ~IsNone(r.TransactionID)}
          unbalanced == {t \in {r.TransactionID : r \in txn_df} :
                           out_of_balance({r \in txn_df : r.TransactionID = t},
                                          tolerance_abs, tolerance_rel)}
      IN  When(bad_amt # {}, Issue("Critical", "Parsing", "non-numeric", coercion_note))
          \o When(sparse, Issue("Warning", "Data Quality", "TransactionID sparse", None))
          \o When(~column, Issue("Info", "Data Quality", "TransactionID not found", None))
          \o When(has_txnid /\ unbalanced # {},
                  Issue("Critical", "Transaction Balance", "transactions", None))
          \o When(out_of_balance(d.rows, tolerance_abs, tolerance_rel),
                  Issue(IF has_txnid THEN "Warning" ELSE "Critical",
                        "Overall Balance", "overall", None))

GLValidationRows ==
  { [TxnDate |-> Some(<<2022, 1>>), AccountNumber |-> Some(a),
     Debit |-> m[1], Credit |-> m[2], TransactionID |-> i] :
      a \in {1000}, m \in AmountPairs, i \in {None, Some("T1"), Some("T2")} }

GLFrames ==
  {None} \cup
  { Some([columns |-> c, rows |-> S]) :
      c \in {required_columns \cup {"TransactionID"}, required_columns},
      S \in DataFrames(GLValidationRows, MaxValidatedRows) }

InitGLActivity ==
  /\ stage = "uploaded"
  /\ gl_df \in GLFrames
  /\ tb_df = None
  /\ statement_years = 0
  /\ tb_fin = EmptyDict /\ gl_fin = EmptyDict /\ combined = EmptyDict
  /\ error = ""
  /\ checks = <<>>
  /\ accounts = <<>> /\ mapped = <<>>
  /\ uploaded_file = None /\ session_state = EmptyDict
  /\ now = None
  /\ heap = <<>> /\ calls = <<>>

\* validate_gl_activity(gl_df, tolerance_abs, tolerance_rel); the chosen
\* tolerances are kept in `accounts`
ValidateGLActivity(tolerance_abs, tolerance_rel) ==
  /\ stage = "uploaded"
  /\ checks' = validate_gl_activity(gl_df, tolerance_abs, tolerance_rel)
  /\ accounts' = <<tolerance_abs, tolerance_rel>>
  /\ stage' = "validated"
  /\ UNCHANGED <<heap, calls, tb_df, gl_df, statement_years, tb_fin, gl_fin, combined,
                 error, mapped, uploaded_file, session_state, now>>

NextGLActivity == \E t \in ToleranceArgs : ValidateGLActivity(t[1], t[2])

SpecGLActivity == InitGLActivity /\ [][NextGLActivity]_vars
(***************************************************************************)
(* Dashboard (streamlit_app.py)                                            *)
(*                                                                         *)
(* A frame of the dashboard is the record of its columns (df.columns, as a *)
(* set of names) and its rows, each row with its Index label; a frame      *)
(* keeps its columns when it loses its rows.  The uploaded file has the    *)
(* columns TxnDate, AccountNumber, AccountName, Debit and Credit, and      *)
(* possibly TransactionID or GLID; it has no Currency column, so that      *)
(* convert_to_usd returns it as a copy, and at least one row.  A TxnDate   *)
(* is None for a blank cell and Some(<<year, day>>) for a date; an         *)
(* AccountNumber, an AccountName and an identifier are None for a blank    *)
(* cell; the amounts are whole numbers.                                    *)
(***************************************************************************)
\* c in df.columns
has_column(df, c) == c \in df.columns

\* rows of a frame in the order of the frame
RECURSIVE rows_in_order(_)
rows_in_order(rows) ==
  IF rows = {} THEN <<>>
  ELSE LET r == CHOOSE r \in rows : \A q \in rows : r.Index <= q.Index
       IN  <<r>> \o rows_in_order(rows \ {r})

\* df[mask].index.tolist()
index_list(selected) ==
  LET rows == rows_in_order(selected) IN [i \in DOMAIN rows |-> rows[i].Index]

\* rows[:100]
first_hundred(rows) == SubSeq(rows, 1, IF Len(rows) < 100 THEN Len(rows) ELSE 100)

\* 'TransactionID' if 'TransactionID' in df.columns else 'GLID'
id_col(df) == IF has_column(df, "TransactionID") THEN "TransactionID" ELSE "GLID"

\* df.duplicated(subset=[id_col], keep=False)
duplicated_all(df, c) ==
  {r \in df.rows : \E q \in df.rows : q.Index # r.Index /\ q[c] = r[c]}

\* df.duplicated(subset=[id_col], keep='first')
duplicated_after_first(df, c) ==
  {r \in df.rows : \E q \in df.rows : q.Index < r.Index /\ q[c] = r[c]}

RECURSIVE SumSeq(_)
SumSeq(s) == IF s = <<>> THEN 0 ELSE Head(s) + SumSeq(Tail(s))

\* the rows whose |amount| exceeds mean + 3 * std of the |amounts| (std with
\* n - 1 in the denominator, NaN for a single row).  With n rows, S the sum
\* and Q the sum of squares of the |amounts|, x > S/n + 3*sqrt((n*Q - S*S) /
\* (n*(n-1))) is the comparison of whole numbers below.
large_amounts(df, c) ==
  LET n == Cardinality(df.rows)
      amount(r) == Abs(r[c])
      square(r) == amount(r) * amount(r)
      rows == rows_in_order(df.rows)
      S == SumSeq([i \in DOMAIN rows |-> amount(rows[i])])
      Q == SumSeq([i \in DOMAIN rows |-> square(rows[i])])
      over(r) == n * amount(r) - S
  IN  {r \in df.rows : /\ n > 1
                  /\ over(r) > 0
                  /\ over(r) * over(r) * (n - 1) > 9 * n * (n * Q - S * S)}

\* an entry of the list validate_data_detailed returns; `count` is the number
\* its texts show; the texts and the sample rows are for display only
DetailedIssue(severity, category, issue, count, auto_fix, rows) ==
  [severity |-> severity, category |-> category, issue |-> issue,
   count |-> count, auto_fix |-> auto_fix,
   affected_rows |-> first_hundred(index_list(rows)),
   total_affected |-> Cardinality(rows)]

\* validate_data_detailed(df), at the reading `clock` of pd.Timestamp.now().
\* (It also rewrites df['TxnDate'] as datetimes, which a frame of dates and
\* blanks already holds.)
validate_data_detailed(df, clock) ==
  LET missing_dates == {r \in df.rows : IsNone(r.TxnDate)}
      missing_acct == {r \in df.rows : IsNone(r.AccountNumber)}
      invalid_acct ==
        {r \in df.rows : /\ ~IsNone(r.AccountNumber)
                    /\ (Val(r.AccountNumber) < 0 \/ Val(r.AccountNumber) > 99999)}
      has_id == has_column(df, "TransactionID") \/ has_column(df, "GLID")
      duplicates == IF has_id THEN duplicated_all(df, id_col(df)) ELSE {}
      has_amounts == has_column(df, "Debit") /\ has_column(df, "Credit")
      diff == IF has_amounts THEN Abs(SumDebit(df.rows) - SumCredit(df.rows)) ELSE 0
      has_amt == has_column(df, "Amount") \/ has_column(df, "Debit")
      amt_col == IF has_column(df, "Amount") THEN "Amount" ELSE "Debit"
      outliers == IF has_amt THEN large_amounts(df, amt_col) ELSE {}
      future == {r \in df.rows : IsFuture(r.TxnDate, clock)}
  IN  When(has_column(df, "TxnDate") /\ missing_dates # {},
           DetailedIssue("Warning", "Missing Data", "transactions missing dates",
                         Cardinality(missing_dates),
                         Some("remove_missing_dates"), missing_dates))
      \o When(has_column(df, "AccountNumber") /\ missing_acct # {},
              DetailedIssue("Critical", "Missing Data",
                            "transactions without account numbers",
                            Cardinality(missing_acct),
                            Some("map_unclassified"), missing_acct))
      \o When(has_column(df, "AccountNumber") /\ invalid_acct # {},
              DetailedIssue("Critical", "Data Quality", "invalid account numbers",
                            Cardinality(invalid_acct),
                            Some("fix_account_numbers"), invalid_acct))
      \o When(has_id /\ duplicates # {},
              DetailedIssue("Warning", "Duplicates", "duplicate IDs",
                            Cardinality(duplicates),
                            Some("remove_duplicates"), duplicates))
      \o When(has_amounts /\ float_gt(float(diff), Decimal(1, 100)),
              DetailedIssue("Critical", "Balance Verification", "Out of balance",
                            diff, None, {}))
      \o When(has_amt /\ outliers # {},
              DetailedIssue("Info", "Data Quality", "unusually large amounts",
                            Cardinality(outliers), None, outliers))
      \o When(has_column(df, "TxnDate") /\ future # {},
              DetailedIssue("Warning", "Date Issues", "future dates",
                            Cardinality(future),
                            Some("remove_future_dates"), future))

\* an entry of the changes log
LogEntry(row, action, reason, details) ==
  [Row |-> row, Action |-> action, Reason |-> reason, Details |-> details]

\* one entry per row of a set, in the order of the frame
LogRows(rows, Entry(_)) ==
  LET ordered == rows_in_order(rows) IN [i \in DOMAIN ordered |-> Entry(ordered[i])]

\* one branch of apply_selected_fixes on [df, fixes, log]; the branch for the
\* future dates reads the clock twice
apply_fix(state, fix, clock1, clock2) ==
  LET df_fixed == state.df
      before == Cardinality(df_fixed.rows)
      step(rows, text, count, entries) ==
        [df |-> [df_fixed EXCEPT !.rows = rows],
         fixes |-> Append(state.fixes, <<text, count>>),
         log |-> state.log \o entries]
      \* remove_missing_dates
      removed == {r \in df_fixed.rows : IsNone(r.TxnDate)}
      missing_date(r) ==
        LogEntry(r.Index, "REMOVED", "Missing date", <<"Account", r.AccountNumber>>)
      \* map_unclassified
      mask == {r \in df_fixed.rows : IsNone(r.AccountNumber)}
      unclassify(r) ==
        IF r \in mask
          THEN [r EXCEPT !.AccountNumber = Some(9999),
                         !.AccountName = Some(Str("Unclassified"))]
          ELSE r
      missing_account(r) ==
        LogEntry(r.Index, "MODIFIED", "Missing account", <<"Mapped to 9999">>)
      \* fix_account_numbers
      negative ==
        {r \in df_fixed.rows : ~IsNone(r.AccountNumber) /\ Val(r.AccountNumber) < 0}
      positive(r) ==
        IF r \in negative
          THEN [r EXCEPT !.AccountNumber = Some(Abs(Val(r.AccountNumber)))]
          ELSE r
      negative_account(r) ==
        LogEntry(r.Index, "MODIFIED", "Negative account",
                 <<"Converted to positive">>)
      \* remove_duplicates
      c == id_col(df_fixed)
      dups == duplicated_after_first(df_fixed, c)
      duplicate(r) ==
        LogEntry(r.Index, "REMOVED",
                 IF c = "TransactionID" THEN "Duplicate TransactionID"
                 ELSE "Duplicate GLID",
                 <<"ID", r[c]>>)
      \* remove_future_dates
      future == {r \in df_fixed.rows : IsFuture(r.TxnDate, clock1)}
      kept == {r \in df_fixed.rows :
                 ~IsNone(r.TxnDate) /\ DateLE(Val(r.TxnDate), clock2)}
      future_date(r) ==
        LogEntry(r.Index, "REMOVED", "Future date", <<"Date", r.TxnDate>>)
  IN  CASE fix = Some("remove_missing_dates") ->
             step(df_fixed.rows \ removed, "Removed missing dates",
                  Cardinality(removed), LogRows(removed, missing_date))
        [] fix = Some("map_unclassified") ->
             step({unclassify(r) : r \in df_fixed.rows}, "Mapped to Unclassified",
                  Cardinality(mask), LogRows(mask, missing_account))
        [] fix = Some("fix_account_numbers") ->
             step({positive(r) : r \in df_fixed.rows}, "Fixed negative accounts",
                  Cardinality(negative), LogRows(negative, negative_account))
        [] fix = Some("remove_duplicates") ->
             step(df_fixed.rows \ dups, "Removed duplicates",
                  Cardinality(dups), LogRows(dups, duplicate))
        [] fix = Some("remove_future_dates") ->
             step(kept, "Removed future dates",
                  before - Cardinality(kept), LogRows(future, future_date))
        [] OTHER -> state

\* selections.get(f'issue_{idx}', False)
is_selected(selections, idx) == idx \in DOMAIN selections /\ selections[idx]

\* the loop of apply_selected_fixes from the issue of index idx on
RECURSIVE apply_from(_, _, _, _, _, _)
apply_from(state, issues, selections, idx, clock1, clock2) ==
  IF idx >= Len(issues) THEN state
  ELSE apply_from(IF is_selected(selections, idx)
                    THEN apply_fix(state, issues[idx + 1].auto_fix, clock1, clock2)
                    ELSE state,
                  issues, selections, idx + 1, clock1, clock2)

\* apply_selected_fixes(df, issues, selections): the frame and the list it
\* returns, and the log it stores in st.session_state.changes_log; clock1 and
\* clock2 are the two readings of pd.Timestamp.now() of the future-date fix
apply_selected_fixes(df, issues, selections, clock1, clock2) ==
  apply_from([df |-> df, fixes |-> <<>>, log |-> <<>>],
             issues, selections, 0, clock1, clock2)

\* whether apply_selected_fixes gets to read the clock
reads_clock(issues, selections) ==
  \E i \in DOMAIN issues :
    is_selected(selections, i - 1) /\ issues[i].auto_fix = Some("remove_future_dates")

\* ---- the statements of the dashboard -------------------------------------
\* df['Year'] = pd.to_datetime(df['TxnDate']).dt.year, written into df: None
\* stands for the NaN of a row without a date
with_Year(df) ==
  [columns |-> df.columns \cup {"Year"},
   rows |-> { [Year |-> IF IsNone(r.TxnDate) THEN None
                       ELSE Some(Val(r.TxnDate)[1])] @@ r : r \in df.rows }]

\* df['Year'].unique(): the years in the order of their first row
RECURSIVE unique(_)
unique(s) ==
  IF s = <<>> THEN <<>>
  ELSE LET init == unique(SubSeq(s, 1, Len(s) - 1))
           last == s[Len(s)]
       IN  IF \E i \in DOMAIN init : init[i] = last THEN init
           ELSE Append(init, last)

\* a < b for two years, False when either is NaN
year_lt(a, b) == ~IsNone(a) /\ ~IsNone(b) /\ Val(a) < Val(b)

\* sorted() of a short list, as CPython sorts it: the run the list begins
\* with (non-descending, or strictly descending and then reversed), and a
\* binary insertion of each later element.  With a NaN in the list the
\* result depends on the order of the list.
RECURSIVE run_end(_, _, _)
run_end(s, i, descending) ==
  IF i > Len(s) THEN i
  ELSE IF year_lt(s[i], s[i - 1]) = descending THEN run_end(s, i + 1, descending)
       ELSE i

Reversed(s) == [i \in DOMAIN s |-> s[Len(s) + 1 - i]]

RECURSIVE bisect(_, _, _, _)
bisect(s, pivot, l, r) ==
  IF l >= r THEN l
  ELSE LET p == l + (r - l) \div 2
       IN  IF year_lt(pivot, s[p + 1]) THEN bisect(s, pivot, l, p)
           ELSE bisect(s, pivot, p + 1, r)

RECURSIVE binarysort(_, _)
binarysort(run, rest) ==
  IF rest = <<>> THEN run
  ELSE LET pivot == Head(rest)
           l == bisect(run, pivot, 0, Len(run))
       IN  binarysort(SubSeq(run, 1, l) \o <<pivot>> \o SubSeq(run, l + 1, Len(run)),
                      Tail(rest))

sorted(s) ==
  IF Len(s) < 2 THEN s
  ELSE LET descending == year_lt(s[2], s[1])
           e == run_end(s, 3, descending)
           run == SubSeq(s, 1, e - 1)
       IN  binarysort(IF descending THEN Reversed(run) ELSE run,
                      SubSeq(s, e, Len(s)))

\* calculate_financial_statements of streamlit_app.py (the dashboard's own):
\* the dict it returns, as the list of its items in the order of insertion,
\* and the frame it was handed, which it extends.  No row has the year NaN
\* (NaN == NaN is False), so that the figures of that key are sums of nothing.
dashboard_calculate_financial_statements(df) ==
  LET dated == with_Year(df)
      rows == rows_in_order(dated.rows)
      years == sorted(unique([i \in DOMAIN rows |-> rows[i].Year]))
      of_year(y) == {r \in dated.rows : ~IsNone(y) /\ r.Year = y}
  IN  [value |-> [i \in DOMAIN years |->
                    [year |-> years[i], data |-> dashboard_year(of_year(years[i]))]],
       df |-> dated]

\* financial_data.keys() and financial_data[y]
dict_keys(financial_data) ==
  [i \in DOMAIN financial_data |-> financial_data[i].year]
dict_item(financial_data, y) ==
  financial_data[CHOOSE i \in DOMAIN financial_data : financial_data[i].year = y].data

\* {'total_transactions': len(df), 'by_year': df.groupby('Year').size()}; the
\* groups leave out the rows whose year is NaN
dataset_summary(df) ==
  [total_transactions |-> len(df.rows),
   by_year |-> [y \in {Val(r.Year) : r \in {q \in df.rows : ~IsNone(q.Year)}} |->
                  len({r \in df.rows : r.Year = Some(y)})]]

\* the dict it returns and the two frames, which both gain the Year column
generate_reconciliation(original_df, cleaned_df, financial_data) ==
  [value |-> [original_summary |-> dataset_summary(with_Year(original_df)),
              cleaned_summary |-> dataset_summary(with_Year(cleaned_df)),
              differences |-> <<>>, removed_items |-> <<>>],
   original_df |-> with_Year(original_df),
   cleaned_df |-> with_Year(cleaned_df)]

\* the figures of the dashboard's summary text for latest_year = years[-1];
\* the set holds one summary per outcome of the unguarded division
dashboard_summaries(financial_data, years, recon) ==
  LET latest == dict_item(financial_data, years[Len(years)])
  IN  { [transactions |-> recon.cleaned_summary.total_transactions,
         years |-> Len(years),
         performance |-> IF float_gt(latest.net_margin, float(15))
                         THEN "strong" ELSE "moderate",
         revenue |-> latest.revenue,
         gross_margin |-> latest.gross_margin,
         ebit_margin |-> latest.ebit_margin,
         net_income |-> latest.net_income,
         net_margin |-> latest.net_margin,
         total_assets |-> latest.total_assets,
         total_liab |-> latest.total_liab,
         total_equity |-> latest.total_equity,
         debt_to_equity |-> q,
         improve_margins |-> float_lt(latest.gross_margin, float(40)),
         control_costs |-> float_lt(latest.net_margin, float(10))] :
        q \in true_divide(latest.total_liab, latest.total_equity) }

(***************************************************************************)
(* Summary and dashboard on their own                                      *)
(***************************************************************************)
MaxDashboardRows == 2
MaxSummaryYears == 2

SummaryYears == {2022, 2023}

\* statements handed to the rule-based summary
SummaryStatements ==
  { EmptyDict,
    [revenue |-> 4, cogs |-> 1],
    [revenue |-> 2, cogs |-> 3, common_stock |-> 1, accounts_payable |-> 2],
    [cogs |-> 1, retained_earnings |-> -1, common_stock |-> 1,
     long_term_debt |-> 3],
    [revenue |-> 5, tax_expense |-> 1, retained_earnings |-> -2,
     accounts_payable |-> 1, capex |-> -1, delta_ar |-> -1],
    [revenue |-> 42, cogs |-> 33, tax_expense |-> 3, common_stock |-> 10,
     long_term_debt |-> 3] }

\* a row of an uploaded ledger without its identifier
LedgerRow(date, number, name, debit, credit) ==
  [TxnDate |-> date, AccountNumber |-> number, AccountName |-> name,
   Debit |-> debit, Credit |-> credit]

\* rows of a file in the sample format: postings of 2023 and 2022 that can
\* balance each other, and a row for each thing the validation looks for (a
\* blank date, a blank account, a negative and a six-digit account number, a
\* date ahead of every reading of the clock and one between two readings)
DashboardRows ==
  { LedgerRow(Some(<<2023, 1>>), Some(4000), Some(Str("Sales")), 0, 42),
    LedgerRow(Some(<<2023, 1>>), Some(5000), Some(Str("Cost of Sales")), 33, 0),
    LedgerRow(Some(<<2023, 1>>), Some(1000), Some(Str("Cash")), 42, 0),
    LedgerRow(Some(<<2023, 1>>), Some(3000), Some(Str("Common Stock")), 0, 42),
    LedgerRow(Some(<<2023, 1>>), Some(2500), Some(Str("Loan")), 0, 33),
    LedgerRow(Some(<<2023, 1>>), Some(6500), Some(Str("Depreciation")), 33, 0),
    LedgerRow(Some(<<2023, 1>>), Some(7000), Some(Str("Interest")), 42, 0),
    LedgerRow(Some(<<2022, 1>>), Some(4000), Some(Str("Sales")), 0, 33),
    LedgerRow(Some(<<2022, 1>>), Some(1000), Some(Str("Cash")), 33, 0),
    LedgerRow(None, Some(1000), Some(Str("Cash")), 42, 0),
    LedgerRow(Some(<<2023, 1>>), None, None, 0, 42),
    LedgerRow(Some(<<2023, 1>>), Some(-4000), Some(Str("Sales")), 0, 42),
    LedgerRow(Some(<<2023, 1>>), Some(100000), Some(Str("Other")), 42, 0),
    LedgerRow(Some(<<2031, 1>>), Some(1000), Some(Str("Cash")), 42, 0),
    LedgerRow(Some(<<2026, 60>>), Some(4000), Some(Str("Sales")), 0, 42) }

\* rows of a file with the column c of identifiers
IdentifiedRows(c, ids) ==
  { (c :> i) @@ r :
      i \in ids,
      r \in { LedgerRow(Some(<<2023, 1>>), Some(4000), Some(Str("Sales")), 0, 42),
              LedgerRow(Some(<<2023, 1>>), Some(1000), Some(Str("Cash")), 42, 0),
              LedgerRow(Some(<<2031, 1>>), Some(1000), Some(Str("Cash")), 42, 0) } }

\* pd.read_csv of a file with the given columns and rows
read_csv(columns, rows) == [columns |-> columns, rows |-> DataFrame(rows)]

LedgerColumns == {"TxnDate", "AccountNumber", "AccountName", "Debit", "Credit"}

\* the sequences of 1 to n rows of a universe
FileRows(universe, n) == RowSeqs(universe, n) \ {<<>>}

\* the uploaded files: at most MaxDashboardRows rows in either order
UploadedFiles ==
  { read_csv(LedgerColumns, s) : s \in FileRows(DashboardRows, MaxDashboardRows) }
    \cup { read_csv(LedgerColumns \cup {"TransactionID"}, s) :
             s \in FileRows(IdentifiedRows("TransactionID",
                                           {None, Some("T1"), Some("T2")}),
                            MaxDashboardRows) }
    \cup { read_csv(LedgerColumns \cup {"GLID"}, s) :
             s \in FileRows(IdentifiedRows("GLID", {Some("G1")}), MaxDashboardRows) }

\* st.session_state as the script initialises it
initial_session_state ==
  [uploaded_data |-> None, data_cleaned |-> None, issues |-> <<>>,
   issue_selections |-> EmptyDict, financial_data |-> None,
   data_reconciliation |-> None, changes_log |-> <<>>, excel_output |-> None,
   validation_complete |-> FALSE, model_generated |-> FALSE]

InitSummary ==
  /\ uploaded_file \in {None} \cup {Some(df) : df \in UploadedFiles}
  /\ IF IsNone(uploaded_file)
       THEN /\ stage = "computed"
            /\ session_state = EmptyDict
            /\ \E ys \in SUBSET SummaryYears :
                 /\ Cardinality(ys) <= MaxSummaryYears
                 /\ combined \in [ys -> SummaryStatements]
       ELSE /\ stage = "uploaded"
            /\ session_state = initial_session_state
            /\ combined = EmptyDict
  /\ now = None
  /\ heap = <<>> /\ calls = <<>>
  /\ tb_df = None /\ gl_df = None
  /\ statement_years = 0
  /\ tb_fin = EmptyDict /\ gl_fin = EmptyDict
  /\ error = ""
  /\ checks = EmptyDict
  /\ accounts = <<>> /\ mapped = <<>>

\* generate_rule_based_summary on a computed model
RuleBasedSummary(has_balance_sheet, has_cash_flow) ==
  /\ stage = "computed" /\ IsNone(uploaded_file)
  /\ checks' = generate_rule_based_summary(combined, has_balance_sheet,
                                           has_cash_flow)
  /\ stage' = "summarised"
  /\ UNCHANGED <<heap, calls, tb_df, gl_df, statement_years, tb_fin, gl_fin, combined,
                 error, accounts, mapped, uploaded_file, session_state, now>>

\* the keys issue_0 .. issue_{n-1} that are not yet in the selections are
\* set to True; a key is kept as its number
select_defaults(selections, n) ==
  [i \in DOMAIN selections \cup 0..(n - 1) |->
     IF i \in DOMAIN selections THEN selections[i] ELSE TRUE]

\* for idx in range(n): selections[f'issue_{idx}'] = value
select_all(selections, n, value) ==
  [i \in DOMAIN selections \cup 0..(n - 1) |->
     IF i \in 0..(n - 1) THEN value ELSE selections[i]]

\* The boxes of the n issues a run shows are drawn and their states are
\* copied into the selections:
\*   st.checkbox("Fix", value=selections.get(f'issue_{idx}', True), key=f'issue_{idx}')
\*   for idx in range(n): selections[f'issue_{idx}'] = st.session_state[f'issue_{idx}']
\* A box that the run before has drawn has the state that run copied into
\* the selections, a box drawn for the first time takes its selection as
\* value, and the box the user has clicked to start this run (toggled, None
\* when the run has another cause) has the opposite state.
copy_checkboxes(selections, n, toggled) ==
  [i \in DOMAIN selections |->
     IF i \in 0..(n - 1) /\ toggled = Some(i) THEN ~selections[i]
     ELSE selections[i]]

\* the part of a script run that every run of an unvalidated upload goes
\* through: the upload is read, validated and the issues and the default
\* selections are stored; when there are issues their boxes are drawn and
\* read back
validation_run(session, df, issues, toggled) ==
  [session EXCEPT !.uploaded_data = Some(df),
                  !.issues = issues,
                  !.issue_selections =
                     copy_checkboxes(select_defaults(@, Len(issues)),
                                     Len(issues), toggled)]

\* what can start a script run without a button: the upload, or any other
\* event that leaves the boxes alone (None), or a click on one of the boxes
\* the last run has drawn
box_clicks(session) ==
  {None} \cup {Some(i) : i \in 0..(Len(session.issues) - 1)}

\* the end of a run that found no issue
all_checks_passed(session, df) ==
  [session EXCEPT !.validation_complete = TRUE, !.data_cleaned = Some(df)]

\* A script run of an unvalidated upload in which no button is pressed: the
\* run after the upload, or the run a click on a "Fix" box starts.
ValidateUpload ==
  /\ stage \in {"uploaded", "issues"}
  /\ ~session_state.validation_complete
  /\ \E t \in ClockReadings(now), toggled \in box_clicks(session_state) :
       \E issues \in {validate_data_detailed(Val(uploaded_file), t)} :
         /\ session_state' =
              IF issues = <<>>
                THEN all_checks_passed(
                       validation_run(session_state, Val(uploaded_file), issues,
                                      toggled),
                       Val(uploaded_file))
                ELSE validation_run(session_state, Val(uploaded_file), issues,
                                    toggled)
         /\ stage' = IF issues = <<>> THEN "validated" ELSE "issues"
         /\ now' = Some(t)
  /\ UNCHANGED <<heap, calls, tb_df, gl_df, statement_years, tb_fin, gl_fin, combined,
                 error, checks, accounts, mapped, uploaded_file>>

\* The script run in which "Accept AI Fixes" is pressed: the upload is
\* validated again (reading t1), the boxes are read back as the last run
\* left them, every issue is selected, the fixes are
\* applied (readings t2 and t3 when the future dates are among them) and
\* st.rerun() ends the run.  When the new validation finds no issue the
\* button is not there any more and the run ends as one that passed.
AcceptFixes ==
  /\ stage = "issues"
  /\ ~session_state.validation_complete
  /\ \E t1 \in ClockReadings(now) :
       \E t2 \in ClockReadings(Some(t1)) :
         \E t3 \in ClockReadings(Some(t2)) :
           \E issues \in {validate_data_detailed(Val(uploaded_file), t1)} :
             \E run \in {validation_run(session_state, Val(uploaded_file), issues,
                                          None)} :
               \E selections \in {select_all(run.issue_selections, Len(issues), TRUE)} :
                 \E fixed \in {apply_selected_fixes(Val(uploaded_file), issues,
                                                    selections, t2, t3)} :
                   /\ reads_clock(issues, selections) \/ (t2 = t1 /\ t3 = t1)
                   /\ session_state' =
                        IF issues = <<>>
                          THEN all_checks_passed(run, Val(uploaded_file))
                          ELSE [run EXCEPT !.issue_selections = selections,
                                           !.changes_log = fixed.log,
                                           !.data_cleaned = Some(fixed.df),
                                           !.validation_complete = TRUE]
                   /\ now' = Some(t3)
  /\ stage' = "validated"
  /\ UNCHANGED <<heap, calls, tb_df, gl_df, statement_years, tb_fin, gl_fin, combined,
                 error, checks, accounts, mapped, uploaded_file>>

\* The script run in which "Decline & Continue" is pressed: the upload is
\* validated again, the boxes are read back as the last run left them, every
\* issue is deselected and the upload itself becomes
\* the cleaned data.
DeclineFixes ==
  /\ stage = "issues"
  /\ ~session_state.validation_complete
  /\ \E t \in ClockReadings(now) :
       \E issues \in {validate_data_detailed(Val(uploaded_file), t)} :
         \E run \in {validation_run(session_state, Val(uploaded_file), issues,
                                          None)} :
           /\ session_state' =
                IF issues = <<>>
                  THEN all_checks_passed(run, Val(uploaded_file))
                  ELSE [run EXCEPT !.issue_selections =
                                      select_all(@, Len(issues), FALSE),
                                   !.data_cleaned = Some(Val(uploaded_file)),
                                   !.validation_complete = TRUE]
           /\ now' = Some(t)
  /\ stage' = "validated"
  /\ UNCHANGED <<heap, calls, tb_df, gl_df, statement_years, tb_fin, gl_fin, combined,
                 error, checks, accounts, mapped, uploaded_file>>

\* The script run in which "Generate 3-Statement Model" is pressed: the
\* upload is read again, the model and the reconciliation are stored, and
\* st.rerun() ends the run before anything of the model is rendered.
GenerateModel ==
  /\ stage = "validated" /\ ~IsNone(uploaded_file)
  /\ session_state.validation_complete /\ ~session_state.model_generated
  /\ \E calc \in {dashboard_calculate_financial_statements(
                      Val(session_state.data_cleaned))} :
       \E recon \in {generate_reconciliation(Val(uploaded_file), calc.df,
                                             calc.value)} :
         session_state' =
           [session_state EXCEPT !.uploaded_data = Some(recon.original_df),
                                 !.data_cleaned = Some(recon.cleaned_df),
                                 !.financial_data = Some(calc.value),
                                 !.data_reconciliation = Some(recon.value),
                                 !.model_generated = TRUE]
  /\ stage' = "generated"
  /\ UNCHANGED <<heap, calls, tb_df, gl_df, statement_years, tb_fin, gl_fin, combined,
                 error, checks, accounts, mapped, uploaded_file, now>>

\* The script run after st.rerun(): the upload is read again and the
\* statements and the summary are rendered from the session state.  With no
\* year in the model (every row was removed) years[-1] raises IndexError.
RenderSummary ==
  /\ stage = "generated"
  /\ session_state.model_generated
  /\ session_state' = [session_state EXCEPT !.uploaded_data = uploaded_file]
  /\ \E years \in {sorted(dict_keys(Val(session_state.financial_data)))} :
       IF years = <<>>
       THEN /\ stage' = "failed"
            /\ error' = "IndexError"
            /\ checks' = EmptyDict
       ELSE \E s \in dashboard_summaries(Val(session_state.financial_data), years,
                                         Val(session_state.data_reconciliation)) :
              IF s.debt_to_equity = ZeroDivisionError
              THEN /\ stage' = "failed"
                   /\ error' = "ZeroDivisionError"
                   /\ checks' = EmptyDict
              ELSE /\ stage' = "dashboard"
                   /\ error' = ""
                   /\ checks' = s
  /\ UNCHANGED <<heap, calls, tb_df, gl_df, statement_years, tb_fin, gl_fin, combined,
                 accounts, mapped, uploaded_file, now>>

NextSummary ==
  \/ \E b \in BOOLEAN, c \in BOOLEAN : RuleBasedSummary(b, c)
  \/ ValidateUpload
  \/ AcceptFixes
  \/ DeclineFixes
  \/ GenerateModel
  \/ RenderSummary

SpecSummary == InitSummary /\ [][NextSummary]_vars

(***************************************************************************)
(* Vocabulary of the properties                                            *)
(***************************************************************************)
cf_keys ==
  {"delta_ar", "delta_inventory", "delta_prepaid", "delta_other_current_assets",
   "delta_ap", "delta_accrued_payroll", "delta_deferred_revenue",
   "delta_interest_payable", "delta_other_current_liabilities",
   "delta_income_taxes_payable", "delta_debt", "capex", "stock_issuance"}

MergeCalled == stage \in {"merged", "failed", "reconciled"}
MergeReturned == stage \in {"merged", "reconciled"}

\* years with at least one parseable row in an uploaded dataset
DatasetYears(df) ==
  IF IsNone(df) THEN {}
  ELSE {Val(r.TxnDate)[1] : r \in {r \in Val(df) : ~IsNone(r.TxnDate)}}

UnionYears == DatasetYears(tb_df) \cup DatasetYears(gl_df)

\* the latest n years of a set of years (all of them when there are fewer)
Latest(ys, n) == {y \in ys : Cardinality({z \in ys : z > y}) < n}

\* output years of the merge other than the opening year
OutStmtYears ==
  IF DOMAIN combined = {} THEN {} ELSE DOMAIN combined \ {Min(DOMAIN combined)}
OutYear0 == Min(DOMAIN combined)
OutPrev(y) == PrevIn(DOMAIN combined, y)

\* the TB-derived / GL-derived amount of a key in a year, 0 when absent
TBValue(y, k) == IF y \in DOMAIN tb_fin THEN Get(tb_fin[y], k) ELSE 0
GLValue(y, k) == IF y \in DOMAIN gl_fin THEN Get(gl_fin[y], k) ELSE 0

(***************************************************************************)
(* C1                                                                      *)
(***************************************************************************)
\* what the precedence rule of the claim assigns to a name alone
\* (None when name matching yields no category)
C1_NameRule ==
  [n \in AccountNames |->
     IF IsNone(n) THEN None
     ELSE LET nn == normalize_account_name(n)
              T == ACCOUNT_NAME_ALIASES
              Hit(i) == \E j \in DOMAIN T[i][2] :
                          \/ Contains(nn, alias_lower[i][j])
                          \/ Contains(alias_lower[i][j], nn)
          IN  IF Contains(nn, Str("accrued"))
                THEN Some(classify_accrued_liability(Val(n)))
              ELSE IF \E i \in DOMAIN T : Hit(i)
                THEN Some(T[CHOOSE i \in DOMAIN T : Hit(i) /\ \A k \in 1..(i - 1) : ~Hit(k)][1])
              ELSE None]

C1_RangeRule(num) ==
  LET R == DEFAULT_ACCOUNT_RANGES
      In(i) == ~IsNone(num) /\ R[i][2] <= Val(num) /\ Val(num) <= R[i][3]
  IN  IF \E i \in DOMAIN R : In(i)
        THEN Some(R[CHOOSE i \in DOMAIN R : In(i) /\ \A k \in 1..(i - 1) : ~In(k)][1])
        ELSE None

\* C1: every mapped (name, number) pair follows the precedence accrued
\* sub-rule, then first alias match in table order, then the number-range
\* table only when the name yields nothing, then 'unclassified'; and
\* "Accrued Payroll" numbered in 2500-2999 is accrued_payroll.
C1_ClassificationPrecedence ==
  stage = "mapped" =>
    \A i \in DOMAIN mapped :
      LET name == accounts[i].AccountName
          num == accounts[i].AccountNumber
          cat == mapped[i].FSLI_Category
          by_name == C1_NameRule[name]
          by_range == C1_RangeRule(num)
      IN  /\ ~IsNone(by_name) => cat = Val(by_name)
          /\ (IsNone(by_name) /\ ~IsNone(by_range)) => cat = Val(by_range)
          /\ (IsNone(by_name) /\ IsNone(by_range)) => cat = "unclassified"
          /\ (name = Some(Str("Accrued Payroll")) /\ ~IsNone(num)
                /\ Val(num) \in 2500..2999) => cat = "accrued_payroll"

C1_Witness ==
  /\ stage = "mapped"
  /\ \E i \in DOMAIN mapped :
       /\ accounts[i].AccountName = Some(Str("Accrued Payroll"))
       /\ accounts[i].AccountNumber = Some(2600)
       /\ mapped[i].FSLI_Category = "accrued_payroll"

(***************************************************************************)
(* C2                                                                      *)
(***************************************************************************)
\* Year0 as the claim defines it: first statement year minus 1
C2_Year0 == Min(Latest(UnionYears, statement_years)) - 1

\* C2: whenever Year0 (first statement year - 1) is not a year of the
\* TB-derived statements, the merge fails with the missing-opening-snapshot
\* error and returns nothing.
C2_MissingYear0Fails ==
  (MergeCalled /\ UnionYears # {} /\ C2_Year0 \notin DOMAIN tb_fin) =>
    (stage = "failed" /\ error = "ValueError" /\ combined = EmptyDict)

C2_Witness ==
  /\ stage = "failed" /\ error = "ValueError"
  /\ DatasetYears(tb_df) # {}
  /\ C2_Year0 \notin DatasetYears(tb_df)

(***************************************************************************)
(* C3                                                                      *)
(***************************************************************************)
C3_Assets(y) ==
  TBValue(y, "cash") + TBValue(y, "accounts_receivable") + TBValue(y, "inventory")
    + TBValue(y, "prepaid_expenses") + TBValue(y, "other_current_assets")
    + TBValue(y, "ppe_gross") - TBValue(y, "accumulated_depreciation")

C3_Liabilities(y) ==
  TBValue(y, "accounts_payable") + TBValue(y, "accrued_payroll")
    + TBValue(y, "deferred_revenue") + TBValue(y, "interest_payable")
    + TBValue(y, "other_current_liabilities") + TBValue(y, "income_taxes_payable")
    + TBValue(y, "long_term_debt")

C3_Equity(y) == TBValue(y, "common_stock") + TBValue(y, "retained_earnings")

\* C3: for every statement year the reported balance_sheet_check is
\* assets - liabilities - (common stock + TB retained earnings), so it is 0
\* whenever the year's statement balances.
C3_BalanceSheetCheck ==
  stage = "reconciled" =>
    /\ DOMAIN checks = OutStmtYears
    /\ \A y \in DOMAIN checks :
         /\ checks[y].balance_sheet_check
              = C3_Assets(y) - C3_Liabilities(y) - C3_Equity(y)
         /\ (C3_Assets(y) = C3_Liabilities(y) + C3_Equity(y))
              => checks[y].balance_sheet_check = 0

C3_Witness ==
  /\ stage = "reconciled"
  /\ \E y \in DOMAIN checks :
       /\ C3_Assets(y) > 0
       /\ C3_Assets(y) = C3_Liabilities(y) + C3_Equity(y)
       /\ checks[y].retained_earnings_calc # TBValue(y, "retained_earnings")
       /\ checks[y].balance_sheet_check = 0

(***************************************************************************)
(* C4                                                                      *)
(***************************************************************************)
C4_Components(y) ==
  Get(combined[y], "net_income") + Get(combined[y], "depreciation_expense")
    + Get(combined[y], "delta_ar") + Get(combined[y], "delta_inventory")
    + Get(combined[y], "delta_prepaid") + Get(combined[y], "delta_other_current_assets")
    + Get(combined[y], "delta_ap") + Get(combined[y], "delta_accrued_payroll")
    + Get(combined[y], "delta_deferred_revenue") + Get(combined[y], "delta_interest_payable")
    + Get(combined[y], "delta_other_current_liabilities")
    + Get(combined[y], "delta_income_taxes_payable")
    + Get(combined[y], "capex") + Get(combined[y], "stock_issuance")
    - Get(combined[y], "dividends") + Get(combined[y], "delta_debt")

\* C4: for every statement year y with preceding output year prev,
\* cashflow_check = cash[y] - (cash[prev] + all cash-flow components), so it
\* is 0 when ending cash equals beginning cash plus the components.
C4_CashflowCheck ==
  stage = "reconciled" =>
    \A y \in DOMAIN checks :
      /\ checks[y].cashflow_check
           = Get(combined[y], "cash")
               - (Get(combined[OutPrev(y)], "cash") + C4_Components(y))
      /\ (Get(combined[y], "cash")
            = Get(combined[OutPrev(y)], "cash") + C4_Components(y))
           => checks[y].cashflow_check = 0

C4_Witness ==
  /\ stage = "reconciled"
  /\ \E y \in DOMAIN checks :
       /\ Get(combined[y], "net_income") > 0
       /\ Get(combined[y], "cash") > Get(combined[OutPrev(y)], "cash")
       /\ checks[y].cashflow_check = 0

(***************************************************************************)
(* C5                                                                      *)
(***************************************************************************)
\* C5: in every statement year dividends = max(0, RE_begin + net_income -
\* RE_end) with RE_begin taken from the preceding output year, hence >= 0.
C5_Dividends ==
  MergeReturned =>
    \A y \in OutStmtYears :
      LET rollforward == TBValue(OutPrev(y), "retained_earnings")
                           + GLValue(y, "net_income") - TBValue(y, "retained_earnings")
      IN  /\ "dividends" \in DOMAIN combined[y]
          /\ combined[y].dividends = IF rollforward > 0 THEN rollforward ELSE 0
          /\ combined[y].dividends >= 0

C5_Witness ==
  /\ MergeReturned
  /\ \E y \in OutStmtYears :
       /\ TBValue(OutPrev(y), "retained_earnings") + GLValue(y, "net_income")
            < TBValue(y, "retained_earnings")
       /\ GLValue(y, "net_income") > 0
       /\ combined[y].dividends = 0

(***************************************************************************)
(* C6                                                                      *)
(***************************************************************************)
\* the indirect-method drivers of year y against year p of a statement series
C6_SignsHold(fd, y, p) ==
  LET D(k) == Get(fd[y], k) - Get(fd[p], k)
  IN  /\ fd[y].delta_ar = -D("accounts_receivable")
      /\ fd[y].delta_inventory = -D("inventory")
      /\ fd[y].delta_prepaid = -D("prepaid_expenses")
      /\ fd[y].delta_other_current_assets = -D("other_current_assets")
      /\ fd[y].delta_ap = D("accounts_payable")
      /\ fd[y].delta_accrued_payroll = D("accrued_payroll")
      /\ fd[y].delta_deferred_revenue = D("deferred_revenue")
      /\ fd[y].delta_interest_payable = D("interest_payable")
      /\ fd[y].delta_other_current_liabilities = D("other_current_liabilities")
      /\ fd[y].delta_income_taxes_payable = D("income_taxes_payable")
      /\ fd[y].delta_debt = D("long_term_debt")
      /\ fd[y].stock_issuance = D("common_stock")
      /\ fd[y].capex = -D("ppe_gross")

C6_SeriesHolds(fd) ==
  \A y \in DOMAIN fd :
    (\E p \in DOMAIN fd : p < y) => C6_SignsHold(fd, y, PrevIn(DOMAIN fd, y))

\* C6: in the merged output and in both single-source outputs every
\* cash-flow driver has the indirect-method sign against the preceding
\* year, and the single-source drivers of the trial balance equal the merged
\* ones wherever both are computed over the same pair of consecutive years.
C6_DeltaSigns ==
  MergeCalled =>
    /\ C6_SeriesHolds(tb_fin)
    /\ C6_SeriesHolds(gl_fin)
    /\ MergeReturned => C6_SeriesHolds(combined)
    /\ MergeReturned =>
         \A y \in OutStmtYears :
           (/\ y \in DOMAIN tb_fin
            /\ OutPrev(y) \in DOMAIN tb_fin
            /\ PrevIn(DOMAIN tb_fin, y) = OutPrev(y))
             => \A k \in cf_keys : tb_fin[y][k] = combined[y][k]

C6_Witness ==
  /\ MergeReturned
  /\ \E y \in OutStmtYears :
       /\ y \in DOMAIN tb_fin /\ OutPrev(y) \in DOMAIN tb_fin
       /\ combined[y].delta_ar < 0
       /\ tb_fin[y].delta_ar = combined[y].delta_ar

(***************************************************************************)
(* C7                                                                      *)
(***************************************************************************)
statement_keys == Range(is_keys) \cup Range(bs_keys)

\* C7 as stated: every defined line-item key exists for every year of the
\* aggregator's output, the earliest year included.
C7_AllKeysEveryYear ==
  MergeCalled =>
    \A fd \in {tb_fin, gl_fin} :
      \A y \in DOMAIN fd :
        statement_keys \cup cf_keys \cup {"dividends"} \subseteq DOMAIN fd[y]

\* C7 amended: every year of the aggregator's output has the 25 statement
\* keys; the 13 cash-flow driver keys exist exactly for the years after the
\* earliest one; the aggregator never sets dividends.
C7_KeysByYear ==
  MergeCalled =>
    \A fd \in {tb_fin, gl_fin} :
      \A y \in DOMAIN fd :
        DOMAIN fd[y] = IF y = Min(DOMAIN fd) THEN statement_keys
                       ELSE statement_keys \cup cf_keys

C7_Witness ==
  /\ MergeCalled
  /\ Cardinality(DOMAIN tb_fin) >= 2
  /\ Cardinality(DOMAIN gl_fin) = 1
  /\ \E y \in DOMAIN tb_fin : y # Min(DOMAIN tb_fin) /\ tb_fin[y].capex # 0

(***************************************************************************)
(* C8                                                                      *)
(***************************************************************************)
\* C8: whenever the merge returns, its output years are Year0 together with
\* the latest N years of the union of TB and GL years: exactly N+1 years.
C8_OutputYears ==
  MergeReturned =>
    /\ Cardinality(DOMAIN combined) = statement_years + 1
    /\ UnionYears # {} =>
         DOMAIN combined = {Min(Latest(UnionYears, statement_years)) - 1}
                             \cup Latest(UnionYears, statement_years)

(***************************************************************************)
(* C9                                                                      *)
(***************************************************************************)
\* C9: every Balance-Sheet key of every output year is the TB-derived value
\* (0 when TB lacks it); in statement years each Income-Statement key is the
\* GL-derived value; Year0 carries only what TB gave it.
C9_MergeFrame ==
  MergeReturned =>
    /\ \A y \in DOMAIN combined :
         \A k \in Range(bs_keys) :
           k \in DOMAIN combined[y] /\ combined[y][k] = TBValue(y, k)
    /\ \A y \in OutStmtYears :
         \A k \in Range(is_keys) :
           k \in DOMAIN combined[y] /\ combined[y][k] = GLValue(y, k)
    /\ DOMAIN combined # {} =>
         \A k \in DOMAIN combined[OutYear0] : combined[OutYear0][k] = TBValue(OutYear0, k)

C9_Witness ==
  /\ MergeReturned
  /\ \E y \in OutStmtYears :
       /\ y \in DOMAIN tb_fin /\ y \in DOMAIN gl_fin
       /\ gl_fin[y].cash # tb_fin[y].cash
       /\ tb_fin[y].revenue # gl_fin[y].revenue
       /\ combined[y].cash = tb_fin[y].cash

(***************************************************************************)
(* C10                                                                     *)
(***************************************************************************)
\* C10: in the merged output every Income-Statement key and every cash-flow
\* key of Year0 is absent or zero.
C10_Year0OnlyBalanceSheet ==
  (MergeReturned /\ DOMAIN combined # {}) =>
    \A k \in Range(is_keys) \cup cf_keys \cup {"dividends"} :
      Get(combined[OutYear0], k) = 0

(***************************************************************************)
(* Vocabulary of the aggregator properties                                 *)
(***************************************************************************)
Aggregated == stage = "aggregated"
AggSnapshot == ~IsNone(tb_df)
AggIn == IF AggSnapshot THEN Val(tb_df) ELSE Val(gl_df)
AggOut == IF AggSnapshot THEN tb_fin ELSE gl_fin

\* records whose transaction date parses, and those of one calendar year
ParsedRows(df) == {r \in df : ~IsNone(r.TxnDate)}
YearRows(df, y) == {r \in ParsedRows(df) : Val(r.TxnDate)[1] = y}

\* records of year y dated on the latest transaction date of that year
LatestRows(df, y) ==
  {r \in YearRows(df, y) :
     \A q \in YearRows(df, y) : DateLE(Val(q.TxnDate), Val(r.TxnDate))}

\* the records of year y that the mode of the run selects
AggSelected(y) == IF AggSnapshot THEN LatestRows(AggIn, y) ELSE YearRows(AggIn, y)

Debits(rows, cat) == SumDebit({r \in rows : r.FSLI_Category = cat})
Credits(rows, cat) == SumCredit({r \in rows : r.FSLI_Category = cat})

expense_keys ==
  {"cogs", "distribution_expenses", "marketing_admin", "research_dev",
   "depreciation_expense", "interest_expense", "tax_expense"}
asset_keys ==
  {"cash", "accounts_receivable", "inventory", "prepaid_expenses",
   "other_current_assets", "ppe_gross"}
credit_balance_keys ==
  {"accumulated_depreciation", "accounts_payable", "accrued_payroll",
   "deferred_revenue", "interest_payable", "other_current_liabilities",
   "income_taxes_payable", "long_term_debt", "common_stock", "retained_earnings"}

(***************************************************************************)
(* C11                                                                     *)
(***************************************************************************)
\* C11: the aggregator's output has exactly one statement per distinct
\* calendar year among the records whose date parses; records whose date
\* does not parse are dropped without error and contribute to no year.
C11_OneStatementPerYear ==
  Aggregated =>
    /\ DOMAIN AggOut = {Val(r.TxnDate)[1] : r \in ParsedRows(AggIn)}
    /\ AggOut = calculate_financial_statements(ParsedRows(AggIn), AggSnapshot)
    /\ \A y \in DOMAIN AggOut : YearRows(AggIn, y) # {}

C11_Witness ==
  /\ Aggregated
  /\ \E r \in AggIn : IsNone(r.TxnDate)
  /\ DOMAIN AggOut = {2022}

(***************************************************************************)
(* C12                                                                     *)
(***************************************************************************)
\* C12: in snapshot (TB) mode every line item of a year is computed from the
\* records dated on the latest transaction date of that year only; in
\* activity (GL) mode it is computed from every record of the year.
C12_SnapshotLatestDate ==
  Aggregated =>
    \A y \in DOMAIN AggOut :
      \A k \in statement_keys :
        AggOut[y][k] = year_statement(AggSelected(y))[k]

C12_Witness ==
  /\ Aggregated /\ AggSnapshot
  /\ \E r1 \in AggIn, r2 \in AggIn :
       /\ r1.TxnDate = Some(<<2022, 1>>) /\ r2.TxnDate = Some(<<2022, 2>>)
       /\ r1.FSLI_Category = "cash" /\ r2.FSLI_Category = "cash"
       /\ r1.Debit - r1.Credit # 0
       /\ tb_fin[2022].cash = r2.Debit - r2.Credit

(***************************************************************************)
(* C13                                                                     *)
(***************************************************************************)
\* C13: over the year's selected records revenue is the sum of credits,
\* each cost/expense category the sum of debits, each asset category
\* sum(debit) - sum(credit), and each liability, equity and
\* accumulated-depreciation category |sum(debit) - sum(credit)|, never
\* negative.
C13_SignRules ==
  Aggregated =>
    \A y \in DOMAIN AggOut :
      LET rows == AggSelected(y)
      IN  /\ AggOut[y].revenue = Credits(rows, "revenue")
          /\ \A k \in expense_keys : AggOut[y][k] = Debits(rows, k)
          /\ \A k \in asset_keys : AggOut[y][k] = Debits(rows, k) - Credits(rows, k)
          /\ \A k \in credit_balance_keys :
               /\ AggOut[y][k] = Abs(Debits(rows, k) - Credits(rows, k))
               /\ AggOut[y][k] >= 0

C13_Witness ==
  /\ Aggregated
  /\ \E y \in DOMAIN AggOut :
       /\ Debits(AggSelected(y), "accounts_payable") > 0
       /\ Debits(AggSelected(y), "accounts_payable")
            < Credits(AggSelected(y), "accounts_payable")
       /\ AggOut[y].accounts_payable
            = Credits(AggSelected(y), "accounts_payable")
                - Debits(AggSelected(y), "accounts_payable")

(***************************************************************************)
(* C14                                                                     *)
(***************************************************************************)
check_fields ==
  {"balance_sheet_check", "cashflow_check", "retained_earnings_calc",
   "retained_earnings_tb", "retained_earnings_diff"}

C14_Shape ==
  stage = "reconciled" =>
    /\ Cardinality(DOMAIN combined) < 2 => checks = EmptyDict
    /\ Cardinality(DOMAIN combined) >= 2 =>
         /\ DOMAIN checks = DOMAIN combined \ {Min(DOMAIN combined)}
         /\ \A y \in DOMAIN checks : DOMAIN checks[y] = check_fields

\* C14: the checker returns for every mapping of years to statements,
\* whatever keys the statements lack: the empty mapping for fewer than 2
\* years, otherwise one result with the five fields for every year except
\* the earliest; and it leaves the statements it was given unchanged.
C14_ReconcileTotal ==
  /\ []C14_Shape
  /\ [][stage = "merged" => (stage' = "reconciled" /\ combined' = combined)]_vars

C14_Witness ==
  /\ stage = "reconciled"
  /\ Cardinality(DOMAIN combined) = 2
  /\ \E y \in DOMAIN combined : combined[y] = EmptyDict
  /\ \E y \in DOMAIN checks : "cash" \notin DOMAIN combined[y] /\ checks[y].cashflow_check # 0

(***************************************************************************)
(* C15                                                                     *)
(***************************************************************************)
ScenarioRun ==
  /\ [tb |-> tb_df, gl |-> gl_df] \in ScenarioLedgers
  /\ statement_years = 3
  /\ MergeCalled

\* C15: on the four-year example (TB and GL for 2021-2024) the merge with
\* three statement years returns the years 2021-2024 with Year0 = 2021,
\* net_income[2022] = 670, delta_ar[2022] = -10 and dividends[2022] = 640.
C15_Scenario ==
  ScenarioRun =>
    /\ MergeReturned
    /\ DOMAIN combined = {2021, 2022, 2023, 2024}
    /\ OutStmtYears = {2022, 2023, 2024}
    /\ OutYear0 = 2021
    /\ combined[2022].net_income = 670
    /\ combined[2022].delta_ar = -10
    /\ combined[2022].dividends = 640

C15_Witness ==
  /\ ScenarioRun
  /\ stage = "merged"
  /\ combined[2022].revenue = 1100 /\ combined[2022].cogs = 430
  /\ combined[2021].accounts_receivable = 50
  /\ combined[2022].accounts_receivable = 60

(***************************************************************************)
(* C16                                                                     *)
(***************************************************************************)
\* C16 as stated: on the four-year example the checker reports
\* balance_sheet_check[2022] = 0.
C16_ScenarioBalances ==
  (ScenarioRun /\ stage = "reconciled") => checks[2022].balance_sheet_check = 0

\* C16 amended: on the four-year example the balance sheet of 2022 does not
\* balance (assets 120 + 60 = 180, equity 500 + 30 = 530) and the checker
\* reports balance_sheet_check[2022] = -350.
C16_ScenarioResidual ==
  (ScenarioRun /\ stage = "reconciled") =>
    /\ C3_Assets(2022) = 180
    /\ C3_Liabilities(2022) = 0
    /\ C3_Equity(2022) = 530
    /\ checks[2022].balance_sheet_check = -350

C16_Witness ==
  /\ ScenarioRun
  /\ stage = "reconciled"
  /\ DOMAIN checks = {2022, 2023, 2024}
  /\ checks[2022].retained_earnings_tb = 30

(***************************************************************************)
(* C17                                                                     *)
(***************************************************************************)
GLOnly == Aggregated /\ IsNone(tb_df)

\* Income-Statement fields of year y computed from every GL record of y
C17_IncomeStatement(y) ==
  LET rows == YearRows(AggIn, y)
  IN  /\ gl_fin[y].revenue = Credits(rows, "revenue")
      /\ \A k \in expense_keys : gl_fin[y][k] = Debits(rows, k)
      /\ gl_fin[y].net_income
           = Credits(rows, "revenue") - Debits(rows, "cogs")
               - Debits(rows, "distribution_expenses") - Debits(rows, "marketing_admin")
               - Debits(rows, "research_dev") - Debits(rows, "depreciation_expense")
               - Debits(rows, "interest_expense") - Debits(rows, "tax_expense")

C17_NoFirstYearCashFlow ==
  \A y \in DOMAIN gl_fin :
    y = Min(DOMAIN gl_fin) => DOMAIN gl_fin[y] \cap cf_keys = {}

\* C17 as stated: aggregating a GL alone gives, for every year, all
\* Balance-Sheet fields zero, no cash-flow keys for the first year and the
\* Income-Statement fields computed from the GL records.
C17_GLOnlyBalanceSheetZero ==
  GLOnly =>
    /\ \A y \in DOMAIN gl_fin : \A k \in Range(bs_keys) : gl_fin[y][k] = 0
    /\ C17_NoFirstYearCashFlow
    /\ \A y \in DOMAIN gl_fin : C17_IncomeStatement(y)

\* C17 amended: aggregating a GL alone gives, for every year, zero for every
\* Balance-Sheet field whose category the GL does not book in that year (a
\* booked category carries its net amount), no cash-flow keys for the first
\* year and the Income-Statement fields computed from all GL records of the
\* year.
C17_GLOnlyFallback ==
  GLOnly =>
    /\ \A y \in DOMAIN gl_fin :
         \A k \in Range(bs_keys) :
           /\ k \in DOMAIN gl_fin[y]
           /\ (\A r \in YearRows(AggIn, y) : r.FSLI_Category # k) => gl_fin[y][k] = 0
           /\ gl_fin[y][k] # 0 => \E r \in YearRows(AggIn, y) : r.FSLI_Category = k
    /\ C17_NoFirstYearCashFlow
    /\ \A y \in DOMAIN gl_fin : C17_IncomeStatement(y)

C17_Witness ==
  /\ GLOnly
  /\ Cardinality(DOMAIN gl_fin) = 2
  /\ \A r \in AggIn : r.FSLI_Category \in {"revenue", "cogs"}
  /\ \E y \in DOMAIN gl_fin :
       /\ y # Min(DOMAIN gl_fin)
       /\ gl_fin[y].net_income # 0
       /\ cf_keys \subseteq DOMAIN gl_fin[y]
       /\ \A k \in Range(bs_keys) : gl_fin[y][k] = 0

(***************************************************************************)
(* C18                                                                     *)
(***************************************************************************)
\* a name that is null, empty, or normalizes to the empty string
EmptyName(n) == IsNone(n) \/ normalize_account_name(n) = <<>>

\* C18: an account whose name is empty or null and that has no account
\* number classifies as 'unclassified'.
C18_EmptyNameUnclassified ==
  stage = "mapped" =>
    \A i \in DOMAIN mapped :
      (EmptyName(accounts[i].AccountName) /\ IsNone(accounts[i].AccountNumber))
        => mapped[i].FSLI_Category = "unclassified"

(***************************************************************************)
(* C19                                                                     *)
(***************************************************************************)
\* the closed set of FSLI categories of the data model
FSLICategories ==
  {"cash", "accounts_receivable", "inventory", "prepaid_expenses",
   "other_current_assets", "ppe_gross", "accumulated_depreciation",
   "accounts_payable", "accrued_payroll", "deferred_revenue", "interest_payable",
   "other_current_liabilities", "income_taxes_payable", "long_term_debt",
   "common_stock", "retained_earnings", "dividends", "revenue", "cogs",
   "distribution_expenses", "marketing_admin", "research_dev",
   "depreciation_expense", "interest_expense", "tax_expense", "unclassified"}

\* C19: every category assigned by classification (default range table) is a
\* member of the closed FSLI set.
C19_ClosedCategorySet ==
  stage = "mapped" =>
    \A i \in DOMAIN mapped : mapped[i].FSLI_Category \in FSLICategories

(***************************************************************************)
(* C20                                                                     *)
(***************************************************************************)
\* what a row of a call is classified by: its name (None when the frame has
\* no AccountName column), its number, and the range table scanned
classified_by(call, i) ==
  <<IF "AccountName" \in call.given.columns
      THEN Some(call.given.rows[i].AccountName) ELSE None,
    IF "AccountNumber" \in call.given.columns
      THEN Some(call.given.rows[i].AccountNumber) ELSE None,
    call.ranges>>

\* C20: in a session of map_accounts calls, two rows with the same name,
\* number and range table get the same category, whichever call classifies
\* them, at whatever position and after whatever other calls; the frame
\* handed to a call, the frame a call returned, the alias table, the default
\* range table and the caller's range tables are the objects they were.
C20_Deterministic ==
  /\ \A k \in DOMAIN calls, l \in DOMAIN calls :
       \A i \in DOMAIN calls[k].returned.rows, j \in DOMAIN calls[l].returned.rows :
         classified_by(calls[k], i) = classified_by(calls[l], j)
           => calls[k].returned.rows[i].FSLI_Category
                = calls[l].returned.rows[j].FSLI_Category
  /\ \A k \in DOMAIN calls :
       /\ heap[calls[k].df] = calls[k].given
       /\ heap[calls[k].result] = calls[k].returned
  /\ Len(heap) >= FRAME =>
       /\ heap[ALIASES] = AliasesDict
       /\ heap[RANGES] = DEFAULT_ACCOUNT_RANGES
       /\ heap[CUSTOM] = CustomRanges
       /\ heap[EMPTY] = <<>>

\* (Suspense, 1050) is classified first, classified again from the frame
\* the first call returned, and classified a third time with a custom table
C20_Witness ==
  /\ Len(calls) = 3
  /\ calls[1].df = FRAME /\ calls[1].custom_ranges = None
  /\ calls[2].df = calls[1].result /\ calls[2].custom_ranges = Some(EMPTY)
  /\ calls[3].df = FRAME /\ calls[3].custom_ranges = Some(CUSTOM)
  /\ Len(calls[1].given.rows) = 2
  /\ calls[1].given.rows[1]
       = [AccountName |-> Some(Str("Cash")), AccountNumber |-> None]
  /\ calls[1].given.rows[2]
       = [AccountName |-> Some(Str("Suspense")), AccountNumber |-> Some(1050)]
  /\ calls[1].returned.rows[2].FSLI_Category = "cash"
  /\ calls[2].returned.rows[2].FSLI_Category = "cash"
  /\ calls[3].returned.rows[2].FSLI_Category = "inventory"

(***************************************************************************)
(* C21                                                                     *)
(***************************************************************************)
\* C21: when neither the TB nor the GL contributes any year (both missing, or
\* no row of either has a parseable date), the merge fails with an error and
\* returns no result.
C21_FailsWithoutData ==
  (MergeCalled /\ UnionYears = {}) => (stage = "failed" /\ error # "")

(***************************************************************************)
(* C22                                                                     *)
(***************************************************************************)
ratio_fields ==
  {"gross_margin", "ebit_margin", "net_margin", "rev_growth", "ni_growth",
   "debt_to_equity"}

\* C22: every ratio or percentage shown by the rule-based summary and by the
\* dashboard is a number (no raise of ZeroDivisionError, no NaN, no Infinity).
C22_RatiosDefined ==
  /\ error # "ZeroDivisionError"
  /\ \A k \in ratio_fields \cap DOMAIN checks : checks[k].kind = "number"

\* the rule-based summary alone returns the sentinel 0 for every ratio whose
\* denominator is zero
C22_RuleBasedSentinel ==
  (stage = "summarised" /\ DOMAIN combined # {}) =>
    LET latest == combined[LastYear(DOMAIN combined)]
        first == combined[Min(DOMAIN combined)]
    IN  /\ \A k \in ratio_fields \cap DOMAIN checks : checks[k].kind = "number"
        /\ Get(latest, "revenue") = 0 =>
             /\ checks.gross_margin = Zero
             /\ checks.ebit_margin = Zero
             /\ checks.net_margin = Zero
        /\ ("rev_growth" \in DOMAIN checks /\ Get(first, "revenue") = 0) =>
             checks.rev_growth = Zero
        /\ ("ni_growth" \in DOMAIN checks /\ summary_net_income(first) = 0) =>
             checks.ni_growth = Zero
        /\ ("debt_to_equity" \in DOMAIN checks
              /\ SumKeys(latest, summary_equity_keys) = 0) =>
             checks.debt_to_equity = Zero

(***************************************************************************)
(* C23                                                                     *)
(***************************************************************************)
SeqRange(s) == {s[i] : i \in DOMAIN s}

TBIssueReported ==
  \E i \in SeqRange(checks) : i.severity = "Critical" /\ i.category = "Trial Balance"

TBDatedRows == IF IsNone(tb_df) THEN {} ELSE {r \in Val(tb_df).rows : ~IsNone(r.TxnDate)}

\* the product of two doubles as a real number, not rounded
Product(x, y) == Canonical(x.sign * y.sign, BigMul(x.mant, y.mant), x.exp + y.exp)

\* |sum(Debit) - sum(Credit)| > max(tolerance_abs, max(sums) * tolerance_rel)
\* over the reals, for the tolerances the call was given
Exceeds(rows) ==
  LET debit == nansum(rows, "Debit")
      credit == nansum(rows, "Credit")
      diff == float(Abs(debit - credit))
  IN  /\ float_gt(diff, accounts[1])
      /\ float_gt(diff, Product(float(Max(debit, credit)), accounts[2]))

TBUnbalanced ==
  \/ \E t \in {r.TxnDate : r \in TBDatedRows} :
       Exceeds({r \in TBDatedRows : r.TxnDate = t})
  \/ Exceeds(TBDatedRows)

TBColumnsPresent ==
  IsNone(tb_df) \/ required_columns \subseteq Val(tb_df).columns

\* C23 as stated: for every validated TB, a Critical 'Trial Balance' issue is
\* reported exactly when some date group or the overall total of the dated
\* rows is out of tolerance.
C23_CriticalIffUnbalanced ==
  stage = "validated" => (TBIssueReported <=> TBUnbalanced)

\* a TB with no row, or no TB at all
TBEmpty == IsNone(tb_df) \/ Val(tb_df).rows = {}

\* C23 (amended): for a TB that has the five required columns, a Critical
\* 'Trial Balance' issue is reported exactly when some date group or the
\* overall total of the dated rows is out of tolerance, and a TB whose debits
\* equal its credits on every date yields none; a TB with at least one row
\* that lacks a required column yields the 'Missing Columns' issue alone; a
\* TB with no row yields no issue, whatever its columns.
C23_BalanceCheck ==
  stage = "validated" =>
    /\ TBColumnsPresent =>
         /\ TBIssueReported <=> TBUnbalanced
         /\ (\A t \in {r.TxnDate : r \in TBDatedRows} :
               LET g == {r \in TBDatedRows : r.TxnDate = t}
               IN  nansum(g, "Debit") = nansum(g, "Credit"))
              => ~TBIssueReported
    /\ (~TBColumnsPresent /\ ~TBEmpty) =>
         checks = <<Issue("Critical", "Missing Columns",
                          "required columns missing", None)>>
    /\ TBEmpty => checks = <<>>

\* every period is within tolerance, the overall total is not, and the issue
\* is reported
C23_Witness ==
  /\ stage = "validated" /\ TBColumnsPresent
  /\ TBIssueReported
  /\ \A t \in {r.TxnDate : r \in TBDatedRows} :
       ~Exceeds({r \in TBDatedRows : r.TxnDate = t})
  /\ Cardinality({r.TxnDate : r \in TBDatedRows}) = 2
  /\ \E r \in Val(tb_df).rows : IsNone(r.TxnDate)

(***************************************************************************)
(* C24                                                                     *)
(***************************************************************************)
\* C24: after apply_auto_fixes(df, [F]) for a tag F that the validation
\* attached to an issue, validating the returned dataset reports no issue
\* whose auto_fix is F.
C24_FixRemovesIssue ==
  stage = "revalidated" =>
    \A i \in DOMAIN checks : checks[i].auto_fix # Some(accounts[1])

\* the same for the four tags other than fix_account_numbers
C24_OtherFixesRemoveIssue ==
  (stage = "revalidated" /\ accounts[1] # "fix_account_numbers") =>
    \A i \in DOMAIN checks : checks[i].auto_fix # Some(accounts[1])

(***************************************************************************)
(* C25                                                                     *)
(***************************************************************************)
\* C25: when validate_year0_opening_snapshot(tb, N) reports no issue, the
\* merge of that TB with any GL and the same N does not fail with the
\* missing-Year0 error.
C25_ValidatorSufficient ==
  (stage = "failed" /\ error = "ValueError") => checks # <<>>

\* the same when every GL year is also a TB year
C25_SufficientWhenGLWithinTB ==
  (stage = "failed" /\ error = "ValueError"
     /\ DatasetYears(gl_df) \subseteq DatasetYears(tb_df))
    => checks # <<>>

(***************************************************************************)
(* C26                                                                     *)
(***************************************************************************)
\* balance-sheet residual assets - liabilities - equity of an output year
Residual(y) ==
  total_assets(combined[y])
    - total_liabilities(combined[y])
    - (Get(combined[y], "common_stock") + Get(combined[y], "retained_earnings"))

\* max(0, RE_end - RE_begin - net_income): what the clamp of dividends absorbs
Shortfall(y) ==
  LET d == Get(combined[y], "retained_earnings")
             - Get(combined[OutPrev(y)], "retained_earnings")
             - Get(combined[y], "net_income")
  IN  IF d > 0 THEN d ELSE 0

Unclamped(y) ==
  Get(combined[OutPrev(y)], "retained_earnings") + Get(combined[y], "net_income")
    >= Get(combined[y], "retained_earnings")

\* accumulated_depreciation[y] - accumulated_depreciation[prev] - depreciation_expense[y]
DepreciationGap(y) ==
  Get(combined[y], "accumulated_depreciation")
    - Get(combined[OutPrev(y)], "accumulated_depreciation")
    - Get(combined[y], "depreciation_expense")

BalancedThroughout ==
  /\ \A y \in DOMAIN combined : Residual(y) = 0
  /\ \A y \in OutStmtYears : DepreciationGap(y) = 0

C26_Identity ==
  stage = "reconciled" =>
    \A y \in OutStmtYears :
      Unclamped(y) =>
        checks[y].cashflow_check
          = (Residual(y) - Residual(OutPrev(y))) + DepreciationGap(y)

\* C26 as stated: the identity holds in every unclamped statement year, and
\* when the balance sheet balances in every output year and accumulated
\* depreciation grows by the depreciation expense, cashflow_check is 0 in
\* every statement year.
C26_BalancedMeansZero ==
  /\ C26_Identity
  /\ (stage = "reconciled" /\ BalancedThroughout) =>
       \A y \in OutStmtYears : checks[y].cashflow_check = 0

\* C26 (amended): in every statement year cashflow_check is the change of the
\* balance-sheet residual plus the depreciation gap plus the clamped
\* shortfall; so it is the first two terms in an unclamped year, and with a
\* balance sheet that balances throughout and consistent depreciation it is
\* 0 in unclamped years and the shortfall in clamped ones.
C26_CashflowResidual ==
  /\ C26_Identity
  /\ stage = "reconciled" =>
       \A y \in OutStmtYears :
         /\ checks[y].cashflow_check
              = (Residual(y) - Residual(OutPrev(y))) + DepreciationGap(y)
                  + Shortfall(y)
         /\ BalancedThroughout =>
              /\ checks[y].cashflow_check = Shortfall(y)
              /\ Unclamped(y) => checks[y].cashflow_check = 0

\* an unclamped year that pays dividends while the residual moves
C26_Witness ==
  /\ stage = "reconciled"
  /\ \E y \in OutStmtYears :
       /\ Unclamped(y)
       /\ combined[y].dividends > 0
       /\ Residual(y) # Residual(OutPrev(y))
       /\ checks[y].cashflow_check # 0

(***************************************************************************)
(* C27                                                                     *)
(***************************************************************************)
\* sum of the clamped shortfalls of the statement years up to y
RECURSIVE ShortfallUpTo(_)
ShortfallUpTo(y) ==
  IF y = OutYear0 THEN 0 ELSE ShortfallUpTo(OutPrev(y)) + Shortfall(y)

\* the roll-forward of the claim: Year0's TB retained earnings, then
\* + net_income - dividends year by year
RECURSIVE RollForward(_)
RollForward(y) ==
  IF y = OutYear0 THEN TBValue(OutYear0, "retained_earnings")
  ELSE RollForward(OutPrev(y)) + Get(combined[y], "net_income")
         - Get(combined[y], "dividends")

\* C27: retained_earnings_calc is the roll-forward seeded with Year0's TB
\* retained earnings; retained_earnings_diff[y] is the sum of the clamped
\* shortfalls of the statement years up to y, so it is never negative, is 0
\* exactly when no year up to y was clamped, and is non-zero from the first
\* clamped year on.
C27_ClampVisible ==
  stage = "reconciled" =>
    \A y \in OutStmtYears :
      /\ checks[y].retained_earnings_calc = RollForward(y)
      /\ checks[y].retained_earnings_tb = TBValue(y, "retained_earnings")
      /\ checks[y].retained_earnings_diff = ShortfallUpTo(y)
      /\ checks[y].retained_earnings_diff >= 0
      /\ checks[y].retained_earnings_diff = 0
           <=> \A z \in OutStmtYears : z <= y => Shortfall(z) = 0
      /\ Shortfall(y) > 0 => checks[y].retained_earnings_diff # 0

\* two statement years, the first clamped and the second not: the diff of
\* the first year carries over to the second
C27_Witness ==
  /\ stage = "reconciled"
  /\ \E y \in OutStmtYears :
       /\ OutPrev(y) \in OutStmtYears
       /\ Shortfall(OutPrev(y)) > 0
       /\ Shortfall(y) = 0
       /\ combined[y].dividends > 0
       /\ checks[y].retained_earnings_diff = Shortfall(OutPrev(y))

(***************************************************************************)
(* C28                                                                     *)
(***************************************************************************)
\* the TB year-end snapshot of a year: its rows at the latest date
TBSnapshot(y) ==
  IF IsNone(tb_df) THEN {}
  ELSE LET rows == {r \in Val(tb_df) : ~IsNone(r.TxnDate) /\ Val(r.TxnDate)[1] = y}
       IN  {r \in rows : \A q \in rows : DateLE(Val(q.TxnDate), Val(r.TxnDate))}

net_credit_keys ==
  {"accumulated_depreciation", "accounts_payable", "accrued_payroll",
   "deferred_revenue", "interest_payable", "other_current_liabilities",
   "income_taxes_payable", "long_term_debt", "common_stock",
   "retained_earnings"}

\* only Balance-Sheet categories, credit-side categories with a net credit
SnapshotOnBalanceSheet(y) ==
  LET snap == TBSnapshot(y)
  IN  /\ \A r \in snap : r.FSLI_Category \in Range(bs_keys)
      /\ \A c \in net_credit_keys :
           LET rows == {r \in snap : r.FSLI_Category = c}
           IN  SumCredit(rows) >= SumDebit(rows)

SnapshotInBalance(y) ==
  /\ SumDebit(TBSnapshot(y)) = SumCredit(TBSnapshot(y))
  /\ SnapshotOnBalanceSheet(y)

\* C28: a statement year whose TB year-end snapshot has equal total debits
\* and credits, only Balance-Sheet categories, and a net credit balance in
\* every liability, equity and accumulated-depreciation category has
\* balance_sheet_check 0; without the first condition the check is the
\* snapshot's total debits minus its total credits.
C28_BalancedSnapshot ==
  stage = "reconciled" =>
    \A y \in OutStmtYears :
      /\ SnapshotInBalance(y) => checks[y].balance_sheet_check = 0
      /\ SnapshotOnBalanceSheet(y) =>
           checks[y].balance_sheet_check
             = SumDebit(TBSnapshot(y)) - SumCredit(TBSnapshot(y))

\* a balanced snapshot with an asset, a liability or equity line and amounts
C28_Witness ==
  /\ stage = "reconciled"
  /\ \E y \in OutStmtYears :
       /\ SnapshotInBalance(y)
       /\ SumDebit(TBSnapshot(y)) > 0
       /\ \E r \in TBSnapshot(y) : r.FSLI_Category \in net_credit_keys
       /\ checks[y].balance_sheet_check = 0

(***************************************************************************)
(* C29                                                                     *)
(***************************************************************************)
\* C29: an account named by an alias of the table is classified to the
\* category the alias is listed under.
C29_AliasOwnCategory ==
  stage = "mapped" =>
    \A i \in DOMAIN mapped :
      \A e \in AliasEntries :
        mapped[i].AccountName = Some(Str(e[2])) => mapped[i].FSLI_Category = e[1]

(***************************************************************************)
(* C30                                                                     *)
(***************************************************************************)
Reported(severity, category) ==
  \E i \in SeqRange(checks) : i.severity = severity /\ i.category = category

\* C30: whenever the 'Overall Balance' issue is a Warning, a Critical
\* 'Transaction Balance' issue is reported in the same result.
C30_DowngradeOnlyWhenReported ==
  (stage = "validated" /\ Reported("Warning", "Overall Balance"))
    => Reported("Critical", "Transaction Balance")
====
